---- MODULE Spec2Model ----
(***************************************************************************)
(* A model of the vp9-parser crate (src/src/lib.rs): the superframe        *)
(* splitter Vp9Parser::parse_vp9_packet, the stateful uncompressed-header  *)
(* parser Vp9Parser::parse_vp9_frame with every helper it calls, the frame *)
(* descriptor built by Frame::new, and Vp9Parser::reset.                   *)
(*                                                                         *)
(* Packets are sequences of bytes (0..255) and are read bit by bit, most   *)
(* significant bit first, as the bitreader crate does.  Rust arrays keep   *)
(* their 0-based indices: an array of length n is a function on 0..n-1.    *)
(* Option<u8> is a sequence of length 0 (None) or 1 (Some).                *)
(*                                                                         *)
(* Integer overflow is build dependent in Rust: a debug build panics, a    *)
(* release build wraps.  The variable build is chosen in Init and never    *)
(* changes; every arithmetic step that can overflow consults it.           *)
(***************************************************************************)
EXTENDS Integers, Sequences, FiniteSets, TLC

VARIABLES
    build,      \* "debug" | "release": how the crate was compiled
    parser,     \* the Vp9Parser instance (every field of the struct)
    call,       \* the last operation on the parser: what it was given,
                \* the parser before it, and what it returned
    shadow,     \* a second Vp9Parser, given the same packets except the
                \* standalone show_existing_frame packets
    shadowRes,  \* what the last parse_vp9_packet on shadow returned
    clean,      \* no call has failed since construction or the last reset
    prevType,   \* frame_type of the last descriptor returned for a frame
                \* that is not show_existing_frame, since construction/reset
    calls,      \* the number of operations so far
    meta        \* the last Metadata::new: the data given, what it returned

vars == <<build, parser, call, shadow, shadowRes, clean, prevType, calls, meta>>

----------------------------------------------------------------------------
(* Program constants.                                                      *)

MAX_SEGMENTS == 8
MIN_TILE_WIDTH_B64 == 4
MAX_TILE_WIDTH_B64 == 64
INTRA_FRAME == 0
LAST_FRAME == 1
GOLDEN_FRAME == 2
ALTREF_FRAME == 3
SEG_LVL_ALT_Q == 0
SEG_LVL_ALT_L == 1
SEG_LVL_REF_FRAME == 2
SEG_LVL_SKIP == 3

\* u8::MAX + 1 and u16::MAX + 1: the moduli of the wrapping arithmetic.
U8_MOD == 256
U16_MOD == 65536

Pow2(k) == 2 ^ k

----------------------------------------------------------------------------
(* Enumerations and their From<u8> / From<bool> conversions.               *)

ProfileFrom(i) ==
    CASE i = 0 -> "Profile0" [] i = 1 -> "Profile1" [] i = 2 -> "Profile2"
      [] i = 3 -> "Profile3" [] OTHER -> "Unknown"

LevelFrom(d) ==
    CASE d = 10 -> "Level1" [] d = 11 -> "Level1_1" [] d = 20 -> "Level2"
      [] d = 21 -> "Level2_1" [] d = 30 -> "Level3" [] d = 31 -> "Level3_1"
      [] d = 40 -> "Level4" [] d = 41 -> "Level4_1" [] d = 50 -> "Level5"
      [] d = 51 -> "Level5_1" [] d = 52 -> "Level5_2" [] d = 60 -> "Level6"
      [] d = 61 -> "Level6_1" [] d = 62 -> "Level6_2" [] OTHER -> "Unknown"

ColorDepthFrom(d) ==
    CASE d = 8 -> "Depth8" [] d = 10 -> "Depth10" [] d = 12 -> "Depth12"
      [] OTHER -> "Unknown"

MetadataSubsamplingFrom(d) ==
    CASE d = 0 -> "Yuv420" [] d = 1 -> "Yuv420Colocated" [] d = 2 -> "Yuv422"
      [] d = 3 -> "Yuv444" [] OTHER -> "Unknown"

\* The derived Ord of Profile: the position of the variant in the enum.
ProfileOrd(p) ==
    CASE p = "Unknown" -> 0 [] p = "Profile0" -> 1 [] p = "Profile1" -> 2
      [] p = "Profile2" -> 3 [] p = "Profile3" -> 4

ColorSpaceFrom(i) ==
    CASE i = 1 -> "Bt601" [] i = 2 -> "Bt709" [] i = 3 -> "Smpte170"
      [] i = 4 -> "Smpte240" [] i = 5 -> "Bt2020" [] i = 6 -> "Reserved"
      [] i = 7 -> "Rgb" [] OTHER -> "Unknown"

ColorRangeFrom(b) == IF b THEN "FullSwing" ELSE "StudioSwing"

FrameTypeFrom(b) == IF b THEN "NonKeyFrame" ELSE "KeyFrame"

ResetFrameContextFrom(i) ==
    CASE i = 0 -> "No0" [] i = 1 -> "No1" [] i = 2 -> "SingleReset"
      [] i = 3 -> "FullReset" [] OTHER -> "Unknown"

InterpolationFilterFrom(i) ==
    CASE i = 0 -> "EighttapSmooth" [] i = 1 -> "Eighttap"
      [] i = 2 -> "EighttapSharp" [] i = 3 -> "Bilinear" [] OTHER -> "Unknown"

----------------------------------------------------------------------------
(* The parser state: impl Default for Vp9Parser.                           *)

DefaultParser ==
    [ ref_frame_sizes |-> [i \in 0..7 |-> <<0, 0>>],
      show_existing_frame |-> FALSE,
      frame_to_show_map_idx |-> <<>>,
      profile |-> "Profile0",
      last_frame_type |-> "NonKeyFrame",
      frame_type |-> "NonKeyFrame",
      show_frame |-> FALSE,
      error_resilient_mode |-> FALSE,
      intra_only |-> FALSE,
      reset_frame_context |-> "No0",
      refresh_frame_flags |-> 0,
      ref_frame_indices |-> [i \in 0..2 |-> 0],
      ref_frame_sign_bias |-> [i \in 0..3 |-> FALSE],
      allow_high_precision_mv |-> FALSE,
      refresh_frame_context |-> FALSE,
      frame_parallel_decoding_mode |-> TRUE,
      frame_context_idx |-> 0,
      color_depth |-> "Depth8",
      color_space |-> "Unknown",
      color_range |-> "StudioSwing",
      subsampling_x |-> TRUE,
      subsampling_y |-> TRUE,
      width |-> 0,
      height |-> 0,
      render_width |-> 0,
      render_height |-> 0,
      mi_cols |-> 0,
      mi_rows |-> 0,
      tile_rows_log2 |-> 0,
      tile_cols_log2 |-> 0,
      interpolation_filter |-> "Eighttap",
      loop_filter_level |-> 0,
      loop_filter_sharpness |-> 0,
      loop_filter_delta_enabled |-> FALSE,
      update_ref_delta |-> FALSE,
      loop_filter_ref_deltas |-> [i \in 0..3 |-> CASE i = 0 -> 1 [] i = 1 -> 0 [] OTHER -> -1],
      update_mode_delta |-> FALSE,
      loop_filter_mode_deltas |-> [i \in 0..1 |-> 0],
      base_q_idx |-> 0,
      delta_q_y_dc |-> 0,
      delta_q_uv_dc |-> 0,
      delta_q_uv_ac |-> 0,
      lossless |-> FALSE,
      segmentation_enabled |-> FALSE,
      segmentation_update_map |-> FALSE,
      segment_tree_probs |-> [i \in 0..6 |-> 0],
      segment_pred_probs |-> [i \in 0..2 |-> 0],
      segmentation_temporal_update |-> FALSE,
      segmentation_update_data |-> FALSE,
      segmentation_abs_or_delta_update |-> FALSE,
      segment_feature_active |-> [i \in 0..7 |-> [j \in 0..3 |-> FALSE]],
      segment_feature_data |-> [i \in 0..7 |-> [j \in 0..3 |-> 0]] ]

----------------------------------------------------------------------------
(* Frame::new: the descriptor is a copy of the parser's fields (all but    *)
(* ref_frame_sizes) plus the three sizes and the bytes it owns.  Its       *)
(* show_frame is filled from parser.show_existing_frame.                   *)
(* tile_size is a usize; a value below 0 here stands for the wrapped       *)
(* usize 2^BITS + tile_size of a release build.                            *)

Frame_new(p, uncompressed_header_size, compressed_header_size, tile_size, data) ==
    [ data |-> data,
      profile |-> p.profile,
      show_existing_frame |-> p.show_existing_frame,
      frame_to_show_map_idx |-> p.frame_to_show_map_idx,
      last_frame_type |-> p.last_frame_type,
      frame_type |-> p.frame_type,
      show_frame |-> p.show_existing_frame,
      error_resilient_mode |-> p.error_resilient_mode,
      intra_only |-> p.intra_only,
      reset_frame_context |-> p.reset_frame_context,
      ref_frame_indices |-> p.ref_frame_indices,
      ref_frame_sign_bias |-> p.ref_frame_sign_bias,
      allow_high_precision_mv |-> p.allow_high_precision_mv,
      refresh_frame_context |-> p.refresh_frame_context,
      refresh_frame_flags |-> p.refresh_frame_flags,
      frame_parallel_decoding_mode |-> p.frame_parallel_decoding_mode,
      frame_context_idx |-> p.frame_context_idx,
      uncompressed_header_size |-> uncompressed_header_size,
      compressed_header_size |-> compressed_header_size,
      tile_size |-> tile_size,
      color_depth |-> p.color_depth,
      color_space |-> p.color_space,
      color_range |-> p.color_range,
      subsampling_x |-> p.subsampling_x,
      subsampling_y |-> p.subsampling_y,
      width |-> p.width,
      height |-> p.height,
      render_width |-> p.render_width,
      render_height |-> p.render_height,
      mi_cols |-> p.mi_cols,
      mi_rows |-> p.mi_rows,
      tile_rows_log2 |-> p.tile_rows_log2,
      tile_cols_log2 |-> p.tile_cols_log2,
      interpolation_filter |-> p.interpolation_filter,
      loop_filter_level |-> p.loop_filter_level,
      loop_filter_sharpness |-> p.loop_filter_sharpness,
      loop_filter_delta_enabled |-> p.loop_filter_delta_enabled,
      update_ref_delta |-> p.update_ref_delta,
      loop_filter_ref_deltas |-> p.loop_filter_ref_deltas,
      update_mode_delta |-> p.update_mode_delta,
      loop_filter_mode_deltas |-> p.loop_filter_mode_deltas,
      base_q_idx |-> p.base_q_idx,
      delta_q_y_dc |-> p.delta_q_y_dc,
      delta_q_uv_dc |-> p.delta_q_uv_dc,
      delta_q_uv_ac |-> p.delta_q_uv_ac,
      lossless |-> p.lossless,
      segmentation_enabled |-> p.segmentation_enabled,
      segmentation_update_map |-> p.segmentation_update_map,
      segment_tree_probs |-> p.segment_tree_probs,
      segment_pred_probs |-> p.segment_pred_probs,
      segmentation_temporal_update |-> p.segmentation_temporal_update,
      segmentation_update_data |-> p.segmentation_update_data,
      segmentation_abs_or_delta_update |-> p.segmentation_abs_or_delta_update,
      segment_feature_active |-> p.segment_feature_active,
      segment_feature_data |-> p.segment_feature_data ]

----------------------------------------------------------------------------
(* The bit reader (bitreader::BitReader over the frame's bytes).  A read   *)
(* in progress is a record r: the parser being mutated (p), the reader's   *)
(* bit position (pos) and the status (st): "ok", the Vp9ParserError the    *)
(* `?` operator returned with, "panic" or "hang".  Once st is not "ok"     *)
(* every later step leaves r alone: the function has already returned.     *)

Ok(r) == r.st = "ok"

\* A LET definition is evaluated when it is first needed, from the last one
\* back to the first.  InOrder(steps, r) is r; it only has the steps (the
\* status after each statement) evaluated first to last, as the code runs.
InOrder(steps, r) == IF steps = <<>> THEN r ELSE r

Fail(r, e) == IF Ok(r) THEN [r EXCEPT !.st = e] ELSE r

BitAt(data, i) == (data[(i \div 8) + 1] \div Pow2(7 - (i % 8))) % 2

RECURSIVE ReadBits(_, _, _)
ReadBits(data, pos, n) ==
    IF n = 0 THEN 0
    ELSE 2 * ReadBits(data, pos, n - 1) + BitAt(data, pos + n - 1)

\* The value the next n bits hold (0 when fewer than n are left).
Peek(r, data, n) ==
    IF r.pos + n > 8 * Len(data) THEN 0 ELSE ReadBits(data, r.pos, n)

\* read_u8 / read_u16 / read_bool: BitReaderError when fewer than n bits
\* are left, else the position moves on.
Adv(r, data, n) ==
    IF ~Ok(r) THEN r
    ELSE IF r.pos + n > 8 * Len(data) THEN [r EXCEPT !.st = "BitReaderError"]
    ELSE [r EXCEPT !.pos = @ + n]

\* self.<f> = v, unless the function has already returned.
Put(r, f, v) == IF Ok(r) THEN [r EXCEPT !.p[f] = v] ELSE r

\* self.<f>[i] = v
PutAt(r, f, i, v) == IF Ok(r) THEN [r EXCEPT !.p[f][i] = v] ELSE r

\* self.<f>[i][j] = v
PutAt2(r, f, i, j, v) == IF Ok(r) THEN [r EXCEPT !.p[f][i][j] = v] ELSE r

\* self.<f> = br.read_u8(n)?  (also read_u16)
RdU(r, data, n, f) == Put(Adv(r, data, n), f, Peek(r, data, n))

\* self.<f> = br.read_bool()?
RdBool(r, data, f) == Put(Adv(r, data, 1), f, Peek(r, data, 1) = 1)

\* An unsigned addition or subtraction whose exact result v left the range
\* 0..max-1: a debug build panics there, a release build goes on (with the
\* wrapped value, which the caller stores).
Overflow(r, v, max) ==
    IF Ok(r) /\ (v < 0 \/ v >= max) /\ build = "debug"
    THEN [r EXCEPT !.st = "panic"] ELSE r

\* The same for a usize, whose upper end no value of the model reaches: only
\* a subtraction below 0 overflows.
Underflow(r, v) ==
    IF Ok(r) /\ v < 0 /\ build = "debug"
    THEN [r EXCEPT !.st = "panic"] ELSE r

\* SignedRead::read_inverse_i8 / read_inverse_i16: n magnitude bits, then
\* the sign bit.  The magnitude has fewer bits than the target type, so its
\* try_into never fails.
read_inverse_value(r, data, n) ==
    LET value == Peek(r, data, n)
        sign == IF r.pos + n + 1 > 8 * Len(data) THEN 0
                ELSE ReadBits(data, r.pos + n, 1)
    IN  IF sign = 1 THEN -value ELSE value

read_inverse_adv(r, data, n) == Adv(Adv(r, data, n), data, 1)

----------------------------------------------------------------------------
(* The helpers of parse_vp9_frame, each as the function from the read in   *)
(* progress to the read after it.                                          *)

\* refresh_ref_frames without the test of the flag: every slot is refreshed.
refresh_ref_frames_all(p) ==
    [p EXCEPT !.ref_frame_sizes = [i \in 0..7 |-> <<p.width, p.height>>]]

\* Vp9Parser::refresh_ref_frames ("8.10 Reference frame update process").
refresh_ref_frames(p) ==
    [p EXCEPT !.ref_frame_sizes =
        [i \in 0..7 |->
            IF (p.refresh_frame_flags \div Pow2(i)) % 2 = 1
            THEN <<p.width, p.height>>
            ELSE p.ref_frame_sizes[i]]]

\* Vp9Parser::frame_sync_code: InvalidSyncByte only when all three bytes
\* differ from 0x49 0x83 0x42.
frame_sync_code(r, data) ==
    LET frame_sync_byte_0 == Peek(r, data, 8)
        r1 == Adv(r, data, 8)
        frame_sync_byte_1 == Peek(r1, data, 8)
        r2 == Adv(r1, data, 8)
        frame_sync_byte_2 == Peek(r2, data, 8)
        r3 == Adv(r2, data, 8)
    IN  IF Ok(r3) /\ frame_sync_byte_0 # 73 /\ frame_sync_byte_1 # 131
                  /\ frame_sync_byte_2 # 66
        THEN Fail(r3, "InvalidSyncByte") ELSE r3

\* The colour depth color_config stores for a profile and the bit it read.
color_config_depth(profile, ten_or_twelve_bit) ==
    IF ProfileOrd(profile) >= ProfileOrd("Profile2")
    THEN (IF ten_or_twelve_bit THEN "Depth12" ELSE "Depth10")
    ELSE "Depth8"

\* The end of color_config: color_range and the subsampling of the colour
\* space just read.  odd: profile 1 or 3.
color_config_sampling(r, data, odd) ==
    IF ~Ok(r) THEN r
    ELSE IF r.p.color_space = "Rgb"
    THEN IF odd
         THEN Adv(Put(Put(Put(r, "color_range", "FullSwing"),
                          "subsampling_x", FALSE), "subsampling_y", FALSE),
                  data, 1)
         ELSE Put(r, "color_range", "FullSwing")
    ELSE IF odd
    THEN Adv(RdBool(RdBool(Put(Adv(r, data, 1), "color_range",
                               ColorRangeFrom(Peek(r, data, 1) = 1)),
                           data, "subsampling_x"),
                    data, "subsampling_y"), data, 1)
    ELSE Put(Put(Put(Adv(r, data, 1), "color_range",
                     ColorRangeFrom(Peek(r, data, 1) = 1)),
                 "subsampling_x", TRUE), "subsampling_y", TRUE)

\* self.color_space = br.read_u8(3)?.into()
color_config_space(r, data) ==
    Put(Adv(r, data, 3), "color_space", ColorSpaceFrom(Peek(r, data, 3)))

\* Vp9Parser::color_config.
color_config(r, data) ==
    color_config_sampling(
        color_config_space(
            Put(IF ProfileOrd(r.p.profile) >= ProfileOrd("Profile2")
                THEN Adv(r, data, 1) ELSE r,
                "color_depth",
                color_config_depth(r.p.profile, Peek(r, data, 1) = 1)),
            data),
        data, r.p.profile = "Profile1" \/ r.p.profile = "Profile3")

\* Vp9Parser::compute_image_size: (dim + 7) >> 3 in u16 arithmetic.
compute_image_size(r) ==
    LET r1 == Put(Overflow(r, r.p.width + 7, U16_MOD), "mi_cols",
                  ((r.p.width + 7) % U16_MOD) \div 8)
    IN  Put(Overflow(r1, r1.p.height + 7, U16_MOD), "mi_rows",
            ((r1.p.height + 7) % U16_MOD) \div 8)

\* self.<f> = minus_1 + 1 in u16 arithmetic.
plus_1(r, f, minus_1) ==
    Put(Overflow(r, minus_1 + 1, U16_MOD), f, (minus_1 + 1) % U16_MOD)

\* Vp9Parser::frame_size: both fields are read, then width = .. + 1 and
\* height = .. + 1 in u16 arithmetic.
frame_size(r, data) ==
    LET frame_width_minus_1 == Peek(r, data, 16)
        frame_height_minus_1 == Peek(Adv(r, data, 16), data, 16)
    IN  compute_image_size(
            plus_1(plus_1(Adv(Adv(r, data, 16), data, 16),
                          "width", frame_width_minus_1),
                   "height", frame_height_minus_1))

\* The branch of render_size that reads the two fields.
render_size_read(r, data) ==
    LET render_width_minus_1 == Peek(r, data, 16)
        render_height_minus_1 == Peek(Adv(r, data, 16), data, 16)
    IN  plus_1(plus_1(Adv(Adv(r, data, 16), data, 16),
                      "render_width", render_width_minus_1),
               "render_height", render_height_minus_1)

\* render_size after the bit render_and_frame_size_different.
render_size_branch(r, data, render_and_frame_size_different) ==
    IF ~Ok(r) THEN r
    ELSE IF render_and_frame_size_different THEN render_size_read(r, data)
    ELSE Put(Put(r, "render_width", r.p.width), "render_height", r.p.height)

\* Vp9Parser::render_size.
render_size(r, data) ==
    render_size_branch(Adv(r, data, 1), data, Peek(r, data, 1) = 1)

\* The loop with the size taken from slot i, not from slot
\* ref_frame_indices[i].
RECURSIVE found_ref_loop_slot(_, _, _)
found_ref_loop_slot(r, data, i) ==
    IF i = 3 \/ ~Ok(r) THEN [r |-> r, found |-> FALSE]
    ELSE LET found_ref == Peek(r, data, 1) = 1
             r1 == Adv(r, data, 1)
         IN  IF ~Ok(r1) THEN [r |-> r1, found |-> FALSE]
             ELSE IF found_ref
             THEN LET sizes == r1.p.ref_frame_sizes[i]
                  IN  [r |-> Put(Put(r1, "width", sizes[1]), "height", sizes[2]),
                       found |-> TRUE]
             ELSE found_ref_loop_slot(r1, data, i + 1)

\* The loop of frame_size_with_refs over the three found_ref bits: the
\* read after it, with found telling whether a bit was set.  The slot index
\* comes from 3 bits, so ref_frame_sizes.get never returns None.
RECURSIVE found_ref_loop(_, _, _)
found_ref_loop(r, data, i) ==
    IF i = 3 \/ ~Ok(r) THEN [r |-> r, found |-> FALSE]
    ELSE LET found_ref == Peek(r, data, 1) = 1
             r1 == Adv(r, data, 1)
         IN  IF ~Ok(r1) THEN [r |-> r1, found |-> FALSE]
             ELSE IF found_ref
             THEN LET sizes == r1.p.ref_frame_sizes[r1.p.ref_frame_indices[i]]
                  IN  [r |-> Put(Put(r1, "width", sizes[1]), "height", sizes[2]),
                       found |-> TRUE]
             ELSE found_ref_loop(r1, data, i + 1)

\* frame_size_with_refs after its loop.
frame_size_with_refs_found(l, data) ==
    IF ~l.found THEN frame_size(l.r, data) ELSE compute_image_size(l.r)

\* Vp9Parser::frame_size_with_refs.
frame_size_with_refs(r, data) ==
    render_size(frame_size_with_refs_found(found_ref_loop(r, data, 0), data),
                data)

\* Vp9Parser::read_interpolation_filter.
read_interpolation_filter(r, data) ==
    LET is_filter_switchable == Peek(r, data, 1) = 1
        r1 == Adv(r, data, 1)
    IN  IF ~Ok(r1) THEN r1
        ELSE IF is_filter_switchable
        THEN Put(r1, "interpolation_filter", "Switchable")
        ELSE Put(Adv(r1, data, 2), "interpolation_filter",
                 InterpolationFilterFrom(Peek(r1, data, 2)))

\* One round of a delta loop of loop_filter_params: the update bit and, when
\* it is set, self.<f>[i] = br.read_inverse_i8(6)?.
RECURSIVE loop_filter_deltas(_, _, _, _, _)
loop_filter_deltas(r, data, f, i, n) ==
    IF i = n \/ ~Ok(r) THEN r
    ELSE LET update == Peek(r, data, 1) = 1
             r1 == Adv(r, data, 1)
             r2 == IF Ok(r1) /\ update
                   THEN PutAt(read_inverse_adv(r1, data, 6), f, i,
                              read_inverse_value(r1, data, 6))
                   ELSE r1
         IN  loop_filter_deltas(r2, data, f, i + 1, n)

\* loop_filter_params after loop_filter_delta_update was read.
loop_filter_delta_update_branch(r, data, loop_filter_delta_update) ==
    IF Ok(r) /\ loop_filter_delta_update
    THEN loop_filter_deltas(
             loop_filter_deltas(r, data, "loop_filter_ref_deltas", 0, 4),
             data, "loop_filter_mode_deltas", 0, 2)
    ELSE r

\* loop_filter_params after loop_filter_delta_enabled was read.
loop_filter_delta_enabled_branch(r, data) ==
    IF Ok(r) /\ r.p.loop_filter_delta_enabled
    THEN loop_filter_delta_update_branch(Adv(r, data, 1), data,
                                         Peek(r, data, 1) = 1)
    ELSE r

\* Vp9Parser::loop_filter_params.
loop_filter_params(r, data) ==
    loop_filter_delta_enabled_branch(
        RdBool(RdU(RdU(r, data, 6, "loop_filter_level"),
                   data, 3, "loop_filter_sharpness"),
               data, "loop_filter_delta_enabled"),
        data)

\* self.<f> = self.read_delta_q(br)?
read_delta_q(r, data, f) ==
    LET delta_coded == Peek(r, data, 1) = 1
        r1 == Adv(r, data, 1)
    IN  IF Ok(r1) /\ delta_coded
        THEN Put(read_inverse_adv(r1, data, 4), f, read_inverse_value(r1, data, 4))
        ELSE Put(r1, f, 0)

\* self.lossless = base_q_idx == 0 && every delta == 0
quantization_lossless(r) ==
    Put(r, "lossless",
        r.p.base_q_idx = 0 /\ r.p.delta_q_y_dc = 0
          /\ r.p.delta_q_uv_dc = 0 /\ r.p.delta_q_uv_ac = 0)

\* Vp9Parser::quantization_params.
quantization_params(r, data) ==
    quantization_lossless(
        read_delta_q(
            read_delta_q(
                read_delta_q(RdU(r, data, 8, "base_q_idx"),
                             data, "delta_q_y_dc"),
                data, "delta_q_uv_dc"),
            data, "delta_q_uv_ac"))

\* self.<f>[i] = Self::read_prob(br)?
read_prob(r, data, f, i) ==
    LET prob_coded == Peek(r, data, 1) = 1
        r1 == Adv(r, data, 1)
    IN  IF Ok(r1) /\ prob_coded
        THEN PutAt(Adv(r1, data, 8), f, i, Peek(r1, data, 8))
        ELSE PutAt(r1, f, i, 255)

RECURSIVE segment_tree_probs_loop(_, _, _)
segment_tree_probs_loop(r, data, i) ==
    IF i = 7 \/ ~Ok(r) THEN r
    ELSE segment_tree_probs_loop(read_prob(r, data, "segment_tree_probs", i),
                                 data, i + 1)

RECURSIVE segment_pred_probs_loop(_, _, _)
segment_pred_probs_loop(r, data, i) ==
    IF i = 3 \/ ~Ok(r) THEN r
    ELSE segment_pred_probs_loop(
             IF r.p.segmentation_temporal_update
             THEN read_prob(r, data, "segment_pred_probs", i)
             ELSE PutAt(r, "segment_pred_probs", i, 255),
             data, i + 1)

\* self.segment_feature_active[i][feature] = br.read_bool()?
read_segment_feature_active(r, data, i, feature) ==
    PutAt2(Adv(r, data, 1), "segment_feature_active", i, feature,
           Peek(r, data, 1) = 1)

\* if self.segment_feature_active[i][feature] { data = read_inverse_i16 }
read_segment_feature_data(r, data, i, feature, bits) ==
    IF Ok(r) /\ r.p.segment_feature_active[i][feature]
    THEN PutAt2(read_inverse_adv(r, data, bits), "segment_feature_data",
                i, feature, read_inverse_value(r, data, bits))
    ELSE r

\* One feature of one segment: the active bit and, when it is set, the
\* value br.read_inverse_i16(bits)?.
segment_feature(r, data, i, feature, bits) ==
    read_segment_feature_data(read_segment_feature_active(r, data, i, feature),
                         data, i, feature, bits)

\* One round of the loop over the segments.
segment_features(r, data, i) ==
    PutAt2(
        read_segment_feature_active(
            segment_feature(
                segment_feature(
                    segment_feature(r, data, i, SEG_LVL_ALT_Q, 8),
                    data, i, SEG_LVL_ALT_L, 6),
                data, i, SEG_LVL_REF_FRAME, 2),
            data, i, SEG_LVL_SKIP),
        "segment_feature_data", i, SEG_LVL_SKIP, 0)

RECURSIVE segment_features_loop(_, _, _)
segment_features_loop(r, data, i) ==
    IF i = MAX_SEGMENTS \/ ~Ok(r) THEN r
    ELSE segment_features_loop(segment_features(r, data, i), data, i + 1)

\* if self.segmentation_update_map { .. }
segmentation_update_map_branch(r, data) ==
    IF Ok(r) /\ r.p.segmentation_update_map
    THEN segment_pred_probs_loop(
             RdBool(segment_tree_probs_loop(r, data, 0),
                    data, "segmentation_temporal_update"),
             data, 0)
    ELSE r

\* if self.segmentation_update_data { .. }
segmentation_update_data_branch(r, data) ==
    IF Ok(r) /\ r.p.segmentation_update_data
    THEN segment_features_loop(
             RdBool(r, data, "segmentation_abs_or_delta_update"), data, 0)
    ELSE r

\* if self.segmentation_enabled { .. }
segmentation_enabled_branch(r, data) ==
    IF Ok(r) /\ r.p.segmentation_enabled
    THEN segmentation_update_data_branch(
             RdBool(segmentation_update_map_branch(
                        RdBool(r, data, "segmentation_update_map"), data),
                    data, "segmentation_update_data"),
             data)
    ELSE r

\* Vp9Parser::segmentation_params.
segmentation_params(r, data) ==
    segmentation_enabled_branch(RdBool(r, data, "segmentation_enabled"), data)

----------------------------------------------------------------------------
(* tile_info and trailing_bits.                                            *)

\* u8 << s: a shift by 8 or more is an overflow (a debug build panics before
\* it gets here, a release build masks the shift amount); bits shifted out
\* of the u8 are lost without any check.
ShlU8(x, s) == (x * Pow2(s % 8)) % U8_MOD

\* ((self.mi_cols + 7) >> 3).try_into()? : TryFromIntError above u8::MAX.
sb64_cols_of(p) == (p.mi_cols + 7) \div 8

\* The loop of calc_min_log2_tile_cols from min_log2 on.  min_log2 is a u8.
\* A debug build panics at a shift by 8.  In a release build the shift
\* amount is masked, so the loop condition depends on min_log2 % 8 only: a
\* loop that has not ended when min_log2 is 8 never ends (the rounds from 8
\* on repeat the rounds from 0 on, and the increment wraps from 255 to 0).
RECURSIVE min_log2_loop(_, _)
min_log2_loop(sb64_cols, min_log2) ==
    IF min_log2 >= 8 /\ build = "debug" THEN [st |-> "panic", v |-> 0]
    ELSE IF min_log2 >= 8 THEN [st |-> "hang", v |-> 0]
    ELSE IF ~(ShlU8(MAX_TILE_WIDTH_B64, min_log2) < sb64_cols)
    THEN [st |-> "ok", v |-> min_log2]
    ELSE min_log2_loop(sb64_cols, min_log2 + 1)

\* Vp9Parser::calc_min_log2_tile_cols.
calc_min_log2_tile_cols(p) ==
    IF sb64_cols_of(p) >= U8_MOD THEN [st |-> "TryFromIntError", v |-> 0]
    ELSE min_log2_loop(sb64_cols_of(p), 0)

RECURSIVE max_log2_loop(_, _)
max_log2_loop(sb64_cols, max_log2) ==
    IF (sb64_cols \div Pow2(max_log2)) >= MIN_TILE_WIDTH_B64
    THEN max_log2_loop(sb64_cols, max_log2 + 1)
    ELSE max_log2

\* Vp9Parser::calc_max_log2_tile_cols.
calc_max_log2_tile_cols(p) ==
    IF sb64_cols_of(p) >= U8_MOD THEN [st |-> "TryFromIntError", v |-> 0]
    ELSE [st |-> "ok", v |-> max_log2_loop(sb64_cols_of(p), 1) - 1]

\* The while loop of tile_info: it compares self.tile_rows_log2 (just set to
\* min_log2_tile_cols and not changed in the loop) with max_log2_tile_cols
\* and adds 1 to self.tile_cols_log2 (a u8) per 1-bit; only a 0-bit or the
\* end of the data ends it.
RECURSIVE tile_cols_loop(_, _, _)
tile_cols_loop(r, data, max_log2_tile_cols) ==
    IF ~Ok(r) \/ ~(r.p.tile_rows_log2 < max_log2_tile_cols) THEN r
    ELSE LET increment_tile_cols_log2 == Peek(r, data, 1) = 1
             r1 == Adv(r, data, 1)
         IN  IF ~Ok(r1) \/ ~increment_tile_cols_log2 THEN r1
             ELSE tile_cols_loop(
                      Put(Overflow(r1, r1.p.tile_cols_log2 + 1, U8_MOD),
                          "tile_cols_log2", (r1.p.tile_cols_log2 + 1) % U8_MOD),
                      data, max_log2_tile_cols)

\* The end of tile_info: tile_rows_log2 and, when it is 1, the bit added
\* to it.
tile_rows_log2_branch(r, data) ==
    IF Ok(r) /\ r.p.tile_rows_log2 = 1
    THEN Put(Adv(r, data, 1), "tile_rows_log2",
             r.p.tile_rows_log2 + Peek(r, data, 1))
    ELSE r

\* tile_info once calc_min_log2_tile_cols and calc_max_log2_tile_cols have
\* returned.
tile_info_read(r, data, min_log2_tile_cols, max_log2_tile_cols) ==
    IF ~Ok(r) THEN r
    ELSE IF min_log2_tile_cols.st # "ok" THEN Fail(r, min_log2_tile_cols.st)
    ELSE IF max_log2_tile_cols.st # "ok" THEN Fail(r, max_log2_tile_cols.st)
    ELSE tile_rows_log2_branch(
             RdU(tile_cols_loop(Put(r, "tile_rows_log2", min_log2_tile_cols.v),
                                data, max_log2_tile_cols.v),
                 data, 1, "tile_rows_log2"),
             data)

\* Vp9Parser::tile_info.
tile_info(r, data) ==
    tile_info_read(r, data, calc_min_log2_tile_cols(r.p),
                   calc_max_log2_tile_cols(r.p))

\* Vp9Parser::trailing_bits: `while br.is_aligned(1)`.  The loop runs while
\* the position IS a multiple of 8: from an aligned position it reads one
\* bit (InvalidPadding if it is 1), from any other position it reads nothing.
RECURSIVE trailing_bits(_, _)
trailing_bits(r, data) ==
    IF ~Ok(r) \/ r.pos % 8 # 0 THEN r
    ELSE LET zero_bit == Peek(r, data, 1) = 1
             r1 == Adv(r, data, 1)
         IN  IF Ok(r1) /\ zero_bit THEN Fail(r1, "InvalidPadding")
             ELSE trailing_bits(r1, data)

----------------------------------------------------------------------------
(* Vp9Parser::parse_vp9_frame.  The result: the parser as the call left it *)
(* (p), the status (st) and the descriptor returned (frame: a sequence of  *)
(* length 1, empty unless st = "ok").                                      *)

\* let frame = Frame::new(self, 0, 0, 0, vec![]); return Ok(frame)
show_existing_frame_result(r) ==
    [p |-> r.p, st |-> r.st,
     frame |-> IF Ok(r) THEN <<Frame_new(r.p, 0, 0, 0, <<>>)>> ELSE <<>>]

\* The show_existing_frame branch, were it to count as a frame of the
\* stream: frame_type is written too.
show_existing_frame_header_counted(r, data) ==
    show_existing_frame_result(
        Put(Put(Put(Put(Adv(r, data, 3), "frame_to_show_map_idx",
                        <<Peek(r, data, 3)>>),
                    "refresh_frame_flags", 0),
                "loop_filter_level", 0),
            "frame_type", "NonKeyFrame"))

\* The show_existing_frame branch (it returns the descriptor).
show_existing_frame_header(r, data) ==
    show_existing_frame_result(
        Put(Put(Put(Adv(r, data, 3), "frame_to_show_map_idx",
                    <<Peek(r, data, 3)>>),
                "refresh_frame_flags", 0),
            "loop_filter_level", 0))

\* The KeyFrame branch with refresh_frame_flags short of slot 0.
key_frame_header_flags(r, data) ==
    Put(render_size(
            frame_size(color_config(frame_sync_code(r, data), data), data),
            data),
        "refresh_frame_flags", 254)

\* The KeyFrame branch.
key_frame_header(r, data) ==
    Put(render_size(
            frame_size(color_config(frame_sync_code(r, data), data), data),
            data),
        "refresh_frame_flags", 255)

\* The colour configuration of an intra-only frame: read above profile 0,
\* fixed in profile 0.
intra_only_color_config(r, data) ==
    IF ~Ok(r) THEN r
    ELSE IF ProfileOrd(r.p.profile) > ProfileOrd("Profile0")
    THEN color_config(r, data)
    ELSE Put(Put(Put(Put(r, "color_depth", "Depth8"), "color_space", "Bt601"),
                 "subsampling_x", TRUE), "subsampling_y", TRUE)

\* The intra_only branch of a NonKeyFrame.
intra_only_header(r, data) ==
    render_size(
        frame_size(
            RdU(intra_only_color_config(frame_sync_code(r, data), data),
                data, 8, "refresh_frame_flags"),
            data),
        data)

\* self.ref_frame_indices[i] = read_u8(3)?;
\* self.ref_frame_sign_bias[LAST_FRAME + i] = read_bool()?
ref_frame(r, data, i) ==
    LET r1 == PutAt(Adv(r, data, 3), "ref_frame_indices", i, Peek(r, data, 3))
    IN  PutAt(Adv(r1, data, 1), "ref_frame_sign_bias", LAST_FRAME + i,
              Peek(r1, data, 1) = 1)

RECURSIVE ref_frames_loop(_, _, _)
ref_frames_loop(r, data, i) ==
    IF i = 3 \/ ~Ok(r) THEN r
    ELSE ref_frames_loop(ref_frame(r, data, i), data, i + 1)

\* The inter branch of a NonKeyFrame.
inter_header(r, data) ==
    read_interpolation_filter(
        RdBool(frame_size_with_refs(
                   ref_frames_loop(RdU(r, data, 8, "refresh_frame_flags"),
                                   data, 0),
                   data),
               data, "allow_high_precision_mv"),
        data)

\* self.intra_only: read when the frame is not shown, else false.
intra_only_flag(r, data) ==
    IF ~r.p.show_frame THEN RdBool(r, data, "intra_only")
    ELSE Put(r, "intra_only", FALSE)

\* self.reset_frame_context: read unless error_resilient_mode.
reset_frame_context_header(r, data) ==
    IF ~r.p.error_resilient_mode
    THEN Put(Adv(r, data, 2), "reset_frame_context",
             ResetFrameContextFrom(Peek(r, data, 2)))
    ELSE Put(r, "reset_frame_context", "No0")

\* if self.intra_only { .. } else { .. }
intra_only_branch(r, data) ==
    IF ~Ok(r) THEN r
    ELSE IF r.p.intra_only THEN intra_only_header(r, data)
    ELSE inter_header(r, data)

\* The NonKeyFrame branch.
non_key_frame_header(r, data) ==
    intra_only_branch(
        reset_frame_context_header(intra_only_flag(r, data), data), data)

\* The reset of the persisted loop filter deltas, were it made for every
\* frame.
reset_loop_filter_deltas_always(r) ==
    PutAt(PutAt(PutAt(PutAt(PutAt(PutAt(r,
        "loop_filter_ref_deltas", INTRA_FRAME, 1),
        "loop_filter_ref_deltas", LAST_FRAME, 0),
        "loop_filter_ref_deltas", GOLDEN_FRAME, -1),
        "loop_filter_ref_deltas", ALTREF_FRAME, -1),
        "loop_filter_mode_deltas", 0, 0),
        "loop_filter_mode_deltas", 1, 0)

\* The reset of the persisted loop filter deltas, were it made for key
\* frames only.
reset_loop_filter_deltas_key_only(r) ==
    IF r.p.frame_type = "KeyFrame"
    THEN PutAt(PutAt(PutAt(PutAt(PutAt(PutAt(r,
             "loop_filter_ref_deltas", INTRA_FRAME, 1),
             "loop_filter_ref_deltas", LAST_FRAME, 0),
             "loop_filter_ref_deltas", GOLDEN_FRAME, -1),
             "loop_filter_ref_deltas", ALTREF_FRAME, -1),
             "loop_filter_mode_deltas", 0, 0),
             "loop_filter_mode_deltas", 1, 0)
    ELSE r

\* The reset of the persisted loop filter deltas.
reset_loop_filter_deltas(r) ==
    IF r.p.frame_type = "KeyFrame" \/ r.p.error_resilient_mode \/ r.p.intra_only
    THEN PutAt(PutAt(PutAt(PutAt(PutAt(PutAt(r,
             "loop_filter_ref_deltas", INTRA_FRAME, 1),
             "loop_filter_ref_deltas", LAST_FRAME, 0),
             "loop_filter_ref_deltas", GOLDEN_FRAME, -1),
             "loop_filter_ref_deltas", ALTREF_FRAME, -1),
             "loop_filter_mode_deltas", 0, 0),
             "loop_filter_mode_deltas", 1, 0)
    ELSE r

\* The frame type bit read without last_frame_type being brought up to date.
frame_type_header_stale(r, data) ==
    Put(Adv(r, data, 1), "frame_type", FrameTypeFrom(Peek(r, data, 1) = 1))

\* self.last_frame_type = self.frame_type; self.frame_type = read_bool()?
frame_type_header(r, data) ==
    LET r1 == Put(r, "last_frame_type", r.p.frame_type)
    IN  Put(Adv(r1, data, 1), "frame_type", FrameTypeFrom(Peek(r1, data, 1) = 1))

\* if self.frame_type == FrameType::KeyFrame { .. } else { .. }
frame_type_branch(r, data) ==
    IF ~Ok(r) THEN r
    ELSE IF r.p.frame_type = "KeyFrame" THEN key_frame_header(r, data)
    ELSE non_key_frame_header(r, data)

\* refresh_frame_context and frame_parallel_decoding_mode: read unless
\* error_resilient_mode.
refresh_frame_context_header(r, data) ==
    IF ~r.p.error_resilient_mode
    THEN RdBool(RdBool(r, data, "refresh_frame_context"),
                data, "frame_parallel_decoding_mode")
    ELSE Put(Put(r, "refresh_frame_context", FALSE),
             "frame_parallel_decoding_mode", FALSE)

\* if self.intra_only || self.error_resilient_mode { frame_context_idx = 0 }
frame_context_idx_reset(r) ==
    IF r.p.intra_only \/ r.p.error_resilient_mode
    THEN Put(r, "frame_context_idx", 0) ELSE r

\* From the frame type bit to the end of the frame type's branch.
frame_type_headers(r, data) ==
    frame_type_branch(
        RdBool(RdBool(frame_type_header(r, data), data, "show_frame"),
               data, "error_resilient_mode"),
        data)

\* From refresh_frame_context to loop_filter_params.
frame_context_headers(r, data) ==
    loop_filter_params(
        reset_loop_filter_deltas(
            frame_context_idx_reset(
                RdU(refresh_frame_context_header(r, data),
                    data, 2, "frame_context_idx"))),
        data)

\* From the frame type bit to tile_info.
frame_header(r, data) ==
    LET r1 == frame_type_headers(r, data)
        r2 == frame_context_headers(r1, data)
        r3 == quantization_params(r2, data)
        r4 == segmentation_params(r3, data)
    IN  InOrder(<<r1.st, r2.st, r3.st, r4.st>>, tile_info(r4, data))

\* Frame::new, self.refresh_ref_frames(), Ok(frame)
frame_result(r, data, uncompressed_header_size, compressed_header_size, tile_size) ==
    IF Ok(r)
    THEN [p |-> refresh_ref_frames(r.p), st |-> "ok",
          frame |-> <<Frame_new(r.p, uncompressed_header_size,
                                compressed_header_size, tile_size, data)>>]
    ELSE [p |-> r.p, st |-> r.st, frame |-> <<>>]

\* The three sizes, once trailing_bits has returned.
frame_sizes(r, data, compressed_header_size) ==
    LET uncompressed_header_size == r.pos \div 8
        size == Len(data)
        tile_size == size - (uncompressed_header_size + compressed_header_size)
    IN  frame_result(Underflow(r, tile_size), data, uncompressed_header_size,
                     compressed_header_size, tile_size)

\* compressed_header_size, trailing_bits and the end of the function.
compressed_header(r, data) ==
    frame_sizes(trailing_bits(Adv(r, data, 16), data), data, Peek(r, data, 16))

\* From the frame type bit to the end of the function: everything a frame
\* that is not show_existing_frame goes through.
frame_body(r, data) == compressed_header(frame_header(r, data), data)

\* frame_marker: InvalidFrameMarker unless it is 2.
frame_marker_header(r, data) ==
    IF Ok(Adv(r, data, 2)) /\ Peek(r, data, 2) # 2
    THEN Fail(Adv(r, data, 2), "InvalidFrameMarker")
    ELSE Adv(r, data, 2)

\* if self.profile == Profile::Profile3 { reserved_zero }
profile_reserved_zero(r, data) ==
    IF Ok(r) /\ r.p.profile = "Profile3" THEN Adv(r, data, 1) ELSE r

\* profile_low_bit, profile_high_bit, self.profile
profile_header(r, data) ==
    LET profile_low_bit == Peek(r, data, 1)
        profile_high_bit == Peek(Adv(r, data, 1), data, 1)
    IN  profile_reserved_zero(
            Put(Adv(Adv(r, data, 1), data, 1), "profile",
                ProfileFrom(profile_high_bit * 2 + profile_low_bit)),
            data)

\* if self.show_existing_frame { .. return } else { .. }
show_existing_frame_branch(r, data) ==
    IF ~Ok(r) THEN [p |-> r.p, st |-> r.st, frame |-> <<>>]
    ELSE IF r.p.show_existing_frame THEN show_existing_frame_header(r, data)
    ELSE frame_body(Put(r, "frame_to_show_map_idx", <<>>), data)

parse_vp9_frame(p, data) ==
    show_existing_frame_branch(
        RdBool(profile_header(
                   frame_marker_header([p |-> p, pos |-> 0, st |-> "ok"], data),
                   data),
               data, "show_existing_frame"),
        data)

----------------------------------------------------------------------------
(* Vp9Parser::parse_vp9_packet.  The result: the parser as the call left   *)
(* it (p), the status (st) and the descriptors returned (frames, empty     *)
(* unless st = "ok").                                                      *)

\* The n bytes read most significant first, as the header fields are.
RECURSIVE be_value(_, _, _)
be_value(bytes, from, n) ==
    IF n = 0 THEN 0
    ELSE bytes[from] * Pow2(8 * (n - 1)) + be_value(bytes, from + 1, n - 1)

RECURSIVE le_value(_, _, _)
le_value(bytes, from, n) ==
    IF n = 0 THEN 0 ELSE bytes[from] + U8_MOD * le_value(bytes, from + 1, n - 1)

\* Vp9Parser::read_frame_size: entry `index` of the superframe index, a
\* little-endian integer of bytes_size bytes.
read_frame_size(entry_data, bytes_size, index) ==
    IF bytes_size \in 1..4
    THEN [st |-> "ok", v |-> le_value(entry_data, index * bytes_size + 1, bytes_size)]
    ELSE [st |-> "InvalidFrameSizeByteSize", v |-> 0]

Min(a, b) == IF a < b THEN a ELSE b

\* Vec::truncate(len): no effect when len is not below the length.
Truncate(v, len) == SubSeq(v, 1, Min(len, Len(v)))

Failed(p, st) == [p |-> p, st |-> st, frames |-> <<>>]

\* let frame = self.parse_vp9_frame(..)?; frames.push(frame): the frames so
\* far and the parser after the call, or the error.
pushed(frames, frame) ==
    IF frame.st # "ok" THEN Failed(frame.p, frame.st)
    ELSE [p |-> frame.p, st |-> "ok", frames |-> frames \o frame.frame]

\* frame_count == 1.
superframe_one(p, packet, entry_data, bytes_size) ==
    LET frame_size_0 == read_frame_size(entry_data, bytes_size, 0)
    IN  IF frame_size_0.st # "ok" THEN Failed(p, frame_size_0.st)
        ELSE pushed(<<>>, parse_vp9_frame(p, Truncate(packet, frame_size_0.v)))

\* The second frame of a superframe of two, after the first was parsed.
superframe_second(first, left_over, frame_size_1) ==
    IF first.st # "ok" THEN first
    ELSE IF frame_size_1.st # "ok" THEN Failed(first.p, frame_size_1.st)
    ELSE pushed(first.frames,
                parse_vp9_frame(first.p, Truncate(left_over, frame_size_1.v)))

\* frame_count == 2.  Vec::split_off(at) panics when at is beyond the length.
superframe_two(p, packet, entry_data, bytes_size) ==
    LET frame_size_0 == read_frame_size(entry_data, bytes_size, 0)
        left_over == SubSeq(packet, frame_size_0.v + 1, Len(packet))
    IN  IF frame_size_0.st # "ok" THEN Failed(p, frame_size_0.st)
        ELSE IF frame_size_0.v > Len(packet) THEN Failed(p, "panic")
        ELSE superframe_second(
                 pushed(<<>>, parse_vp9_frame(p, SubSeq(packet, 1, frame_size_0.v))),
                 left_over, read_frame_size(entry_data, bytes_size, 1))

\* Any other frame_count: the loop over frame_index.  done is the state
\* after the rounds before frame_index.
RECURSIVE superframe_loop(_, _, _, _, _, _)
superframe_loop(done, packet, entry_data, bytes_size, frame_count, frame_index) ==
    IF done.st # "ok" \/ frame_index = frame_count THEN done
    ELSE LET frame_size_i == read_frame_size(entry_data, bytes_size, frame_index)
             left_over == SubSeq(packet, frame_size_i.v + 1, Len(packet))
         IN  IF frame_size_i.st # "ok" THEN Failed(done.p, frame_size_i.st)
             ELSE IF frame_size_i.v > Len(packet) THEN Failed(done.p, "panic")
             ELSE superframe_loop(
                      pushed(done.frames,
                             parse_vp9_frame(done.p,
                                             SubSeq(packet, 1, frame_size_i.v))),
                      left_over, entry_data, bytes_size, frame_count,
                      frame_index + 1)

\* The packet is a superframe: the index is copied out and the frames are
\* split off one by one.
superframe(p, packet, first_byte_index, frame_count, bytes_size) ==
    LET index_start == first_byte_index + 1
        entry_size == frame_count * bytes_size
        entry_data == SubSeq(packet, index_start + 1, index_start + entry_size)
    IN  CASE frame_count = 1 -> superframe_one(p, packet, entry_data, bytes_size)
          [] frame_count = 2 -> superframe_two(p, packet, entry_data, bytes_size)
          [] OTHER -> superframe_loop([p |-> p, st |-> "ok", frames |-> <<>>],
                                      packet, entry_data, bytes_size,
                                      frame_count, 0)

\* "Normal frame."
normal_frame(p, packet) == pushed(<<>>, parse_vp9_frame(p, packet))

\* last_byte & 0b1110_0000 == 0b1100_0000
is_superframe_marker(last_byte) == (last_byte \div 32) = 6

parse_vp9_packet(p, packet) ==
    IF Len(packet) = 0 THEN [p |-> p, st |-> "ok", frames |-> <<>>]
    ELSE LET last_byte == packet[Len(packet)]
             bytes_size == ((last_byte \div 8) % 4) + 1
             frame_count == (last_byte % 8) + 1
             index_size == 2 + frame_count * bytes_size
             first_byte_index == Len(packet) - index_size
         IN  \* packet.len() - index_size below 0: a debug build panics at the
             \* subtraction, a release build at the index that wrapped.
             IF is_superframe_marker(last_byte) /\ first_byte_index < 0
             THEN Failed(p, "panic")
             ELSE IF is_superframe_marker(last_byte)
                     /\ packet[first_byte_index + 1] = last_byte
             THEN superframe(p, packet, first_byte_index, frame_count, bytes_size)
             ELSE normal_frame(p, packet)

----------------------------------------------------------------------------
(* The packets given to the parser.  Each is built field by field in the   *)
(* order parse_vp9_frame reads the fields, then packed into bytes.         *)

\* v as n bits, most significant first.
U(v, n) == [i \in 1..n |-> (v \div Pow2(n - i)) % 2]

\* A magnitude-then-sign field as read_inverse_i8 / read_inverse_i16 read it.
S(v, n) == IF v < 0 THEN U(-v, n) \o <<1>> ELSE U(v, n) \o <<0>>

\* Bits to bytes, the last byte filled up with 0 bits.
Pack(bits) ==
    [k \in 1..((Len(bits) + 7) \div 8) |->
        LET bit(j) == IF 8 * (k - 1) + j <= Len(bits) THEN bits[8 * (k - 1) + j] ELSE 0
        IN  128 * bit(1) + 64 * bit(2) + 32 * bit(3) + 16 * bit(4)
              + 8 * bit(5) + 4 * bit(6) + 2 * bit(7) + bit(8)]

\* frame_marker 2, profile 0, show_existing_frame 0, then frame_type,
\* show_frame and error_resilient_mode.
StartBits(frame_type, show_frame, error_resilient_mode) ==
    <<1, 0, 0, 0, 0, frame_type, show_frame, error_resilient_mode>>

SyncBits == U(73, 8) \o U(131, 8) \o U(66, 8)

\* frame_size, then render_and_frame_size_different = 0.
SizeBits(width, height) == U(width - 1, 16) \o U(height - 1, 16) \o <<0>>

\* loop_filter_params without deltas: level, sharpness, delta_enabled = 0.
LoopFilterBits(level) == U(level, 6) \o U(2, 3) \o <<0>>

\* loop_filter_params that updates ref delta 0 and mode delta 1.
LoopFilterDeltaBits(level, ref0, mode1) ==
    U(level, 6) \o U(2, 3) \o <<1, 1>>
      \o <<1>> \o S(ref0, 6) \o <<0, 0, 0>> \o <<0>> \o <<1>> \o S(mode1, 6)

\* quantization_params: base_q_idx and no delta coded.
QuantBits(base_q_idx) == U(base_q_idx, 8) \o <<0, 0, 0>>

\* segmentation_params with update_data: ALT_Q of segment 0 is set to alt_q,
\* no other feature is active.
SegmentationBits(alt_q) ==
    <<1, 0, 1, 1>> \o <<1>> \o S(alt_q, 8) \o <<0, 0, 0>>
      \o [i \in 1..28 |-> 0]

\* refresh_frame_context, frame_parallel_decoding_mode, frame_context_idx.
ContextBits(frame_context_idx) == <<1, 0>> \o U(frame_context_idx, 2)

\* A KeyFrame header up to segmentation_params (colour space Bt709).
KeyFrameBits(show_frame, width, height, frame_context_idx, lf, seg) ==
    StartBits(0, show_frame, 0) \o SyncBits \o U(2, 3) \o <<0>>
      \o SizeBits(width, height) \o ContextBits(frame_context_idx)
      \o lf \o QuantBits(40) \o seg

\* An inter frame header up to segmentation_params: show_frame = 1,
\* reference slots (last, golden, altref), then (size) the found_ref bits,
\* the frame size if no reference was found, and the render_size bit.
InterFrameBits(refresh_frame_flags, refs, size, lf) ==
    StartBits(1, 1, 0) \o U(1, 2) \o U(refresh_frame_flags, 8)
      \o U(refs[1], 3) \o <<0>> \o U(refs[2], 3) \o <<1>> \o U(refs[3], 3) \o <<0>>
      \o size \o <<1>> \o <<0>> \o U(2, 2) \o ContextBits(1)
      \o lf \o QuantBits(0) \o <<0>>

\* An intra-only frame header up to segmentation_params: show_frame = 0.
IntraOnlyBits(refresh_frame_flags, width, height) ==
    StartBits(1, 0, 0) \o <<1>> \o U(2, 2) \o SyncBits
      \o U(refresh_frame_flags, 8) \o SizeBits(width, height) \o ContextBits(3)
      \o LoopFilterBits(9) \o QuantBits(0) \o <<0>>

\* tile_info for a narrow frame (one tile_rows_log2 bit), then the 16 bits
\* of compressed_header_size.
TailBits(compressed_header_size) == <<0>> \o U(compressed_header_size, 16)

\* A frame: the header bits packed, then the bytes after the header.
FrameBytes(bits, rest) == Pack(bits) \o rest

KeyA ==
    FrameBytes(KeyFrameBits(1, 64, 48, 1, LoopFilterBits(12), <<0>>) \o TailBits(1),
               <<0, 7>>)

KeyB ==
    FrameBytes(KeyFrameBits(0, 32, 24, 0, LoopFilterDeltaBits(20, 5, -3),
                            SegmentationBits(-9)) \o TailBits(2),
               <<1, 2, 3>>)

InterRef ==
    FrameBytes(InterFrameBits(2, <<3, 1, 2>>, <<1, 0>>, LoopFilterBits(7))
                 \o TailBits(1),
               <<9>>)

InterSize ==
    FrameBytes(InterFrameBits(1, <<0, 1, 2>>, <<0, 0, 0>> \o SizeBits(16, 16),
                              LoopFilterDeltaBits(3, -2, 4)) \o TailBits(0),
               <<4>>)

IntraOnly == FrameBytes(IntraOnlyBits(4, 8, 8) \o TailBits(1), <<6, 6>>)

\* show_existing_frame = 1, frame_to_show_map_idx = 5: one byte.
ShowExisting == Pack(<<1, 0, 0, 0, 1>> \o U(5, 3))

\* frame_marker 0.
BadMarker == <<0, 0>>

\* A KeyFrame cut off inside its sync code.
KeyTruncated == SubSeq(KeyA, 1, 3)

\* A KeyFrame that updates ref delta 0 and codes two quantizer deltas: its
\* header ends on a byte boundary, and a byte with the top bit set follows.
KeyPadding ==
    FrameBytes(StartBits(0, 1, 0) \o SyncBits \o U(2, 3) \o <<0>>
                 \o SizeBits(64, 48) \o ContextBits(1)
                 \o U(12, 6) \o U(2, 3) \o <<1, 1>>
                 \o <<1>> \o S(7, 6) \o <<0, 0, 0>> \o <<0, 0>>
                 \o U(40, 8) \o <<1>> \o S(1, 4) \o <<1>> \o S(-2, 4) \o <<0>>
                 \o <<0>> \o TailBits(1),
               <<200, 1>>)

\* A KeyFrame none of whose sync bytes is right.
KeyBadSync ==
    Pack(StartBits(0, 1, 0) \o U(1, 8) \o U(2, 8) \o U(3, 8)) \o <<0, 0, 0>>

\* A KeyFrame 20000 wide: sb64_cols does not fit a u8.
KeyWide ==
    FrameBytes(KeyFrameBits(1, 20000, 16, 0, LoopFilterBits(1), <<0>>)
                 \o TailBits(1),
               <<0, 0>>)

\* A KeyFrame whose compressed_header_size is larger than the packet.
KeyBigHeader ==
    FrameBytes(KeyFrameBits(1, 64, 48, 1, LoopFilterBits(12), <<0>>) \o TailBits(300),
               <<0, 7>>)

\* A KeyFrame 512 wide (sb64_cols = 8, so the tile column loop runs): one
\* increment bit, then the 0 bit that ends the loop.
KeyTiles ==
    FrameBytes(KeyFrameBits(1, 512, 16, 0, LoopFilterBits(1), <<0>>)
                 \o <<1, 0>> \o TailBits(1),
               <<0, 0>>)

\* A profile 2 KeyFrame (profile_high_bit = 1) with ten_or_twelve_bit = 1.
KeyDeep ==
    FrameBytes(<<1, 0, 0, 1, 0, 0, 1, 0>> \o SyncBits \o <<1>> \o U(2, 3) \o <<0>>
                 \o SizeBits(64, 48) \o ContextBits(1) \o LoopFilterBits(12)
                 \o QuantBits(40) \o <<0>> \o TailBits(1),
               <<0, 7>>)

\* A valid frame whose last byte looks like a superframe marker (0xC1:
\* two frames, one byte per size) while the byte index_size before the end
\* is another one.
KeyMarkerLike ==
    FrameBytes(KeyFrameBits(1, 64, 48, 1, LoopFilterBits(12), <<0>>) \o TailBits(1),
               <<0, 5, 5, 193>>)

\* A show_existing_frame frame followed by the marker byte 0xC0 (one frame,
\* one byte per size, index_size 3): shorter than its index would be.
ShortMarker == ShowExisting \o <<192>>

\* A superframe: the frames, then marker, sizes (little-endian, bytes_size
\* bytes each), marker.
RECURSIVE Concat(_)
Concat(frames) ==
    IF frames = <<>> THEN <<>> ELSE Head(frames) \o Concat(Tail(frames))

LeBytes(v, n) == [i \in 1..n |-> (v \div Pow2(8 * (i - 1))) % U8_MOD]

SuperframeMarker(frame_count, bytes_size) ==
    192 + 8 * (bytes_size - 1) + (frame_count - 1)

SuperframeBytes(frames, sizes, bytes_size) ==
    Concat(frames) \o <<SuperframeMarker(Len(sizes), bytes_size)>>
      \o Concat([i \in 1..Len(sizes) |-> LeBytes(sizes[i], bytes_size)])
      \o <<SuperframeMarker(Len(sizes), bytes_size)>>

SuperOne == SuperframeBytes(<<IntraOnly>>, <<Len(IntraOnly)>>, 2)

\* One frame, and a size larger than the packet.
SuperOneOver == SuperframeBytes(<<KeyA>>, <<200>>, 1)

SuperTwo == SuperframeBytes(<<KeyB, InterRef>>, <<Len(KeyB), Len(InterRef)>>, 1)

SuperThree ==
    SuperframeBytes(<<KeyA, ShowExisting, InterSize>>,
                    <<Len(KeyA), Len(ShowExisting), Len(InterSize)>>, 2)

\* The second frame of the superframe does not parse.
SuperTwoBad == SuperframeBytes(<<KeyB, BadMarker>>, <<Len(KeyB), Len(BadMarker)>>, 1)

\* The first size of the index is larger than the packet.
SuperOversize == SuperframeBytes(<<KeyA>>, <<200, 1>>, 1)

\* An error resilient inter frame (show_frame = 1, so intra_only is not
\* read; reset_frame_context and the two refresh_frame_context bits are not
\* read either) that carries its own size and frame_context_idx = 2.
InterResilient ==
    FrameBytes(StartBits(1, 1, 1) \o U(8, 8)
                 \o U(0, 3) \o <<0>> \o U(1, 3) \o <<0>> \o U(2, 3) \o <<0>>
                 \o <<0, 0, 0>> \o SizeBits(16, 16) \o <<1>> \o <<1>>
                 \o U(2, 2) \o LoopFilterBits(5) \o QuantBits(0) \o <<0>>
                 \o TailBits(0),
               <<4>>)

\* A KeyFrame 65530 wide: width + 7 does not fit a u16.
KeyHuge ==
    FrameBytes(KeyFrameBits(1, 65530, 16, 0, LoopFilterBits(1), <<0>>)
                 \o TailBits(1),
               <<0, 0>>)

\* An inter frame whose second found_ref bit is set: its size is the size
\* of slot ref_frame_indices[1] = 2.
InterRefSecond ==
    FrameBytes(InterFrameBits(0, <<3, 2, 1>>, <<0, 1, 0>>, LoopFilterBits(7))
                 \o TailBits(1),
               <<9>>)

\* A KeyFrame whose frame_width_minus_1 is 65535, the largest the 16 bits
\* hold.
KeyFull ==
    FrameBytes(KeyFrameBits(1, 65536, 16, 0, LoopFilterBits(1), <<0>>)
                 \o TailBits(1),
               <<0, 0>>)

\* A KeyFrame 10000 wide: sb64_cols = 157 fits a u8, 64 << 2 does not.
KeyBroad ==
    FrameBytes(KeyFrameBits(1, 10000, 16, 0, LoopFilterBits(1), <<0>>)
                 \o <<0>> \o TailBits(1),
               <<0, 0>>)

\* An inter frame that updates ref delta 2 and mode delta 0 and leaves the
\* other deltas alone.
InterMode ==
    FrameBytes(InterFrameBits(0, <<0, 1, 2>>, <<1, 0>>,
                              U(6, 6) \o U(1, 3) \o <<1, 1>>
                                \o <<0, 0, 1>> \o S(6, 6) \o <<0>>
                                \o <<1>> \o S(-1, 6) \o <<0>>)
                 \o TailBits(1),
               <<9>>)

\* The first byte of an error resilient inter frame and nothing after it.
ResilientCut == Pack(StartBits(1, 1, 1))

\* A KeyFrame (frame_context_idx = 1), then the frame cut off after
\* error_resilient_mode.
SuperResilientCut ==
    SuperframeBytes(<<KeyA, ResilientCut>>, <<Len(KeyA), Len(ResilientCut)>>, 1)

Packets ==
    { <<>>, KeyA, KeyB, InterRef, InterSize, IntraOnly, ShowExisting, BadMarker,
      KeyTruncated, KeyPadding, KeyBadSync, KeyWide, KeyBigHeader, KeyTiles,
      KeyMarkerLike, ShortMarker, SuperOne, SuperTwo, SuperThree, SuperTwoBad,
      SuperOversize, SuperOneOver, KeyDeep, InterResilient, ResilientCut,
      SuperResilientCut, KeyHuge, InterRefSecond, KeyFull, KeyBroad,
      InterMode }

----------------------------------------------------------------------------
(* Metadata::new.  The result: the status (st: "ok", "InvalidMetadata" or   *)
(* "panic") and the Metadata returned (metadata: a sequence of length 1,   *)
(* empty unless st = "ok").  pos counts the bytes read, data[pos + 1] is   *)
(* the byte the code calls data[pos].                                      *)

\* features.insert(id, value): the value replaces an earlier one of the id.
insert(features, id, value) == (id :> value) @@ features

\* features.get(&id): Some(value) as <<value>>, None as <<>>.
get(features, id) == IF id \in DOMAIN features THEN <<features[id]>> ELSE <<>>

\* while pos < data.len() { read_feature; insert }.  read_feature indexes
\* data[pos] and data[pos + 1]: a panic when the second is past the end.
RECURSIVE features_loop(_, _, _)
features_loop(data, pos, features) ==
    IF ~(pos < Len(data)) THEN [st |-> "ok", features |-> features]
    ELSE IF ~(pos + 1 < Len(data)) THEN [st |-> "panic", features |-> features]
    ELSE features_loop(data, pos + 2, insert(features, data[pos + 1], data[pos + 2]))

\* The four `.ok_or(Vp9ParserError::InvalidMetadata)?` and Ok(Self { .. })
Metadata_fields(profile, level, color_depth, chroma_subsampling) ==
    IF profile = <<>> \/ level = <<>> \/ color_depth = <<>> \/ chroma_subsampling = <<>>
    THEN [st |-> "InvalidMetadata", metadata |-> <<>>]
    ELSE [st |-> "ok",
          metadata |-> <<[profile |-> ProfileFrom(profile[1]),
                          level |-> LevelFrom(level[1]),
                          color_depth |-> ColorDepthFrom(color_depth[1]),
                          chroma_subsampling |->
                              MetadataSubsamplingFrom(chroma_subsampling[1])]>>]

\* The four features.get: ids 1, 2, 3 and, for chroma_subsampling, 1 again.
Metadata_get(l) ==
    IF l.st # "ok" THEN [st |-> l.st, metadata |-> <<>>]
    ELSE Metadata_fields(get(l.features, 1), get(l.features, 2),
                         get(l.features, 3), get(l.features, 1))

Metadata_new(data) == Metadata_get(features_loop(data, 0, <<>>))

\* The CodecPrivate data given to Metadata::new: up to MaxFeatures (id,
\* value) pairs, and the same with the value of one more pair cut off.
MaxFeatures == 4

Features == { <<1, 0>>, <<1, 3>>, <<2, 40>>, <<3, 8>>, <<4, 3>>, <<4, 1>>, <<5, 7>> }

RECURSIVE CodecPrivatesOf(_)
CodecPrivatesOf(n) ==
    IF n = 0 THEN {<<>>}
    ELSE {d \o f : d \in CodecPrivatesOf(n - 1), f \in Features}

CodecPrivates ==
    UNION {CodecPrivatesOf(n) : n \in 0..MaxFeatures}
      \cup UNION {{d \o <<4>> : d \in CodecPrivatesOf(n)} : n \in 0..(MaxFeatures - 1)}

----------------------------------------------------------------------------
(* The state machine: one parser, driven packet by packet.                 *)

\* The number of operations (parse_vp9_packet, reset) a run makes.
MaxCalls == 2

\* The part of the parser the next frame depends on.
Tracked(p) ==
    [ frame_type |-> p.frame_type,
      ref_frame_sizes |-> p.ref_frame_sizes,
      loop_filter_ref_deltas |-> p.loop_filter_ref_deltas,
      loop_filter_mode_deltas |-> p.loop_filter_mode_deltas ]

Result(out) == [st |-> out.st, frames |-> out.frames]

\* The process is gone after a panic, and never returns from a hang.
Alive == call.res.st \notin {"panic", "hang"}

\* The packet was one show_existing_frame frame and nothing else.
StandaloneShowExisting(out) ==
    /\ out.st = "ok"
    /\ Len(out.frames) = 1
    /\ out.frames[1].show_existing_frame

RECURSIVE LastFrameType(_, _)
LastFrameType(frames, before) ==
    IF frames = <<>> THEN before
    ELSE IF frames[Len(frames)].show_existing_frame
    THEN LastFrameType(SubSeq(frames, 1, Len(frames) - 1), before)
    ELSE frames[Len(frames)].frame_type

NewParser ==
    /\ build \in {"debug", "release"}
    /\ parser = DefaultParser
    /\ call = [op |-> "new", packet |-> <<>>, pre |-> DefaultParser,
               prev |-> "NonKeyFrame", res |-> [st |-> "ok", frames |-> <<>>]]
    /\ shadow = DefaultParser
    /\ shadowRes = [st |-> "ok", frames |-> <<>>]
    /\ clean = TRUE
    /\ prevType = "NonKeyFrame"
    /\ calls = 0

\* No Metadata::new is called on the runs of the parser.
Init == NewParser /\ meta = [data |-> <<>>, res |-> [st |-> "none", metadata |-> <<>>]]

\* parser.parse_vp9_packet(packet)
ParsePacket(packet) ==
    /\ Alive
    /\ calls < MaxCalls
    /\ \E out \in {parse_vp9_packet(parser, packet)} :
         \E sout \in {IF shadow = parser THEN out
                       ELSE parse_vp9_packet(shadow, packet)} :
           LET skipped == StandaloneShowExisting(out)
           IN  /\ calls' = calls + 1
               /\ parser' = out.p
               /\ call' = [op |-> "parse", packet |-> packet, pre |-> parser,
                           prev |-> prevType, res |-> Result(out)]
               /\ shadow' = IF skipped THEN shadow ELSE sout.p
               /\ shadowRes' = IF skipped THEN shadowRes ELSE Result(sout)
               /\ clean' = (clean /\ out.st = "ok")
               /\ prevType' = LastFrameType(out.frames, prevType)
               /\ UNCHANGED <<build, meta>>

\* A reset that leaves the sizes of the reference slots as they are.
reset_keeps_ref_frame_sizes(p) == [DefaultParser EXCEPT !.ref_frame_sizes = p.ref_frame_sizes]

\* *self = Vp9Parser::default()
reset(p) == DefaultParser

\* parser.reset()
Reset ==
    /\ Alive
    /\ calls < MaxCalls
    /\ calls' = calls + 1
    /\ parser' = reset(parser)
    /\ call' = [op |-> "reset", packet |-> <<>>, pre |-> parser,
                prev |-> prevType, res |-> [st |-> "ok", frames |-> <<>>]]
    /\ shadow' = DefaultParser
    /\ shadowRes' = [st |-> "ok", frames |-> <<>>]
    /\ clean' = TRUE
    /\ prevType' = "NonKeyFrame"
    /\ UNCHANGED <<build, meta>>

Next ==
    \/ \E packet \in Packets : ParsePacket(packet)
    \/ Reset

Spec == Init /\ [][Next]_vars

\* Metadata::new on its own: the data is drawn first, the call is the step.
InitMetadata == NewParser /\ meta \in {[data |-> d, res |-> [st |-> "pending", metadata |-> <<>>]] : d \in CodecPrivates}

\* Metadata::new(&data)
MetadataNew ==
    /\ meta.res.st = "pending"
    /\ meta' = [meta EXCEPT !.res = Metadata_new(meta.data)]
    /\ UNCHANGED <<build, parser, call, shadow, shadowRes, clean, prevType, calls>>

NextMetadata == MetadataNew

SpecMetadata == InitMetadata /\ [][NextMetadata]_vars

----------------------------------------------------------------------------
(* The properties.  The structure of a packet is computed below from its   *)
(* bytes alone, as section 4.2 of the specification lays it out, and not   *)
(* by parse_vp9_packet.                                                    *)

Frames == call.res.frames

Parsed == call.op = "parse"

\* The call returned an error value.
Erred == Parsed /\ call.res.st \notin {"ok", "panic", "hang"}

Marker(B) == B[Len(B)]

FrameCount(B) == (Marker(B) % 8) + 1

BytesPerFramesize(B) == ((Marker(B) \div 8) % 4) + 1

IndexSize(B) == 2 + FrameCount(B) * BytesPerFramesize(B)

\* The last byte is a superframe marker and the first byte of the index
\* repeats it.
Recognised(B) ==
    /\ Len(B) >= 1
    /\ Marker(B) \div 32 = 6
    /\ Len(B) >= IndexSize(B)
    /\ B[Len(B) - IndexSize(B) + 1] = Marker(B)

\* The w bytes of B from position at, least significant first.
RECURSIVE LittleEndian(_, _, _)
LittleEndian(B, at, w) ==
    IF w = 0 THEN 0 ELSE B[at] + 256 * LittleEndian(B, at + 1, w - 1)

\* sizes[i] of the index (i from 0).
IndexEntry(B, i) ==
    LittleEndian(B, Len(B) - IndexSize(B) + 2 + i * BytesPerFramesize(B),
                 BytesPerFramesize(B))

\* sizes[0] + ... + sizes[i - 1]
RECURSIVE Offset(_, _)
Offset(B, i) == IF i = 0 THEN 0 ELSE Offset(B, i - 1) + IndexEntry(B, i - 1)

\* Bytes [Offset(i), Offset(i + 1)) of B, cut off at the end of B.
Slice(B, i) == SubSeq(B, Offset(B, i) + 1, Min(Offset(B, i + 1), Len(B)))

\* The descriptors of sub-frames i .. n-1, each parsed from its slice by the
\* parser the one before left; the sequence ends at the first failure.
RECURSIVE SubFrames(_, _, _, _)
SubFrames(p, B, i, n) ==
    IF i = n THEN <<>>
    ELSE LET f == parse_vp9_frame(p, Slice(B, i))
         IN  IF f.st # "ok" THEN <<>>
             ELSE f.frame \o SubFrames(f.p, B, i + 1, n)

\* C1: every descriptor returned has uncompressed_header_size +
\* compressed_header_size + tile_size equal to the length of the bytes it
\* owns, the three sizes non-negative (tile_size did not wrap), so that the
\* two header sizes together never exceed that length.
C1_SizesAddUp ==
    \A i \in DOMAIN Frames :
        LET f == Frames[i]
        IN  /\ f.uncompressed_header_size >= 0
            /\ f.compressed_header_size >= 0
            /\ f.tile_size >= 0
            /\ f.uncompressed_header_size + f.compressed_header_size <= Len(f.data)
            /\ f.uncompressed_header_size + f.compressed_header_size + f.tile_size
                   = Len(f.data)

\* C2: when the parse of a frame (a packet that is one frame) fails with an
\* error, the last frame type, the ref_frame_sizes slots and the persisted
\* loop filter deltas are what they were before the frame.
C2_StateKeptOnError ==
    (Erred /\ ~Recognised(call.packet)) => Tracked(parser) = Tracked(call.pre)

\* C3: when sub-frame 0 of a superframe parses and a later one fails, the
\* call returns the error with no descriptor and the parser state is the
\* state before the packet.
C3_SuperframeNotConsumedOnError ==
    ( /\ Erred
      /\ Recognised(call.packet)
      /\ FrameCount(call.packet) >= 2
      /\ IndexEntry(call.packet, 0) <= Len(call.packet)
      /\ parse_vp9_frame(call.pre, Slice(call.packet, 0)).st = "ok" )
    => (Frames = <<>> /\ Tracked(parser) = Tracked(call.pre))

\* C4: a packet that is one show_existing_frame frame leaves the last frame
\* type, ref_frame_sizes and the persisted loop filter deltas as they were,
\* and every packet parsed after it returns what it returns on the parser
\* that was never given the show_existing_frame packets (shadow).
C4_ShowExistingKeepsState ==
    /\ (Parsed /\ StandaloneShowExisting(call.res)) =>
           /\ Tracked(parser) = Tracked(call.pre)
           /\ \A packet \in Packets :
                  Result(parse_vp9_packet(parser, packet))
                      = Result(parse_vp9_packet(shadow, packet))
    /\ ~(Parsed /\ StandaloneShowExisting(call.res)) =>
           /\ call.res = shadowRes
           /\ Tracked(parser) = Tracked(shadow)

\* A show_existing_frame packet was parsed after a key frame had filled the
\* reference slots, and an inter frame that takes its size from a slot
\* parses on the parser it left.
C4_Witness ==
    /\ Parsed /\ StandaloneShowExisting(call.res)
    /\ call.pre.frame_type = "KeyFrame"
    /\ call.pre.ref_frame_sizes[3] # <<0, 0>>
    /\ parser # shadow
    /\ parse_vp9_packet(parser, InterRef).st = "ok"

\* C5: a show_existing_frame descriptor has show_existing_frame = TRUE, the
\* index read, the three sizes 0, refresh_frame_flags 0, loop_filter_level 0
\* and every other field at its default, whatever was parsed before (apart
\* from profile, which the frame carries, and show_frame).
C5_ShowExistingDescriptorIsDefault ==
    \A i \in DOMAIN Frames :
        LET f == Frames[i]
        IN  f.show_existing_frame =>
                /\ Len(f.frame_to_show_map_idx) = 1
                /\ (Len(call.packet) = 1 =>
                        f.frame_to_show_map_idx = <<call.packet[1] % 8>>)
                /\ f = [Frame_new(DefaultParser, 0, 0, 0, <<>>) EXCEPT
                           !.show_existing_frame = TRUE,
                           !.frame_to_show_map_idx = f.frame_to_show_map_idx,
                           !.profile = f.profile,
                           !.show_frame = f.show_frame]

RECURSIVE Refreshed(_, _)
Refreshed(slots, frames) ==
    IF frames = <<>> THEN slots
    ELSE LET f == Head(frames)
             next == IF f.show_existing_frame THEN slots
                     ELSE [i \in 0..7 |->
                              IF (f.refresh_frame_flags \div Pow2(i)) % 2 = 1
                              THEN <<f.width, f.height>> ELSE slots[i]]
         IN  Refreshed(next, Tail(frames))

\* C7: after the frames of a packet have parsed, slot i of ref_frame_sizes is
\* the (width, height) of the last frame whose refresh_frame_flags has bit i,
\* and a slot no frame named has the value it had before.
C7_SlotsFollowRefreshFlags ==
    (Parsed /\ call.res.st = "ok") =>
        parser.ref_frame_sizes = Refreshed(call.pre.ref_frame_sizes, Frames)

\* A frame refreshed some slots with a new size and left others, which held
\* another size, alone.
C7_Witness ==
    /\ Parsed /\ call.res.st = "ok" /\ Len(Frames) = 1
    /\ ~Frames[1].show_existing_frame
    /\ \E i, j \in 0..7 :
          /\ (Frames[1].refresh_frame_flags \div Pow2(i)) % 2 = 1
          /\ (Frames[1].refresh_frame_flags \div Pow2(j)) % 2 = 0
          /\ call.pre.ref_frame_sizes[i] # <<Frames[1].width, Frames[1].height>>
          /\ parser.ref_frame_sizes[i] = <<Frames[1].width, Frames[1].height>>
          /\ call.pre.ref_frame_sizes[j] \notin
                 {<<0, 0>>, <<Frames[1].width, Frames[1].height>>}
          /\ parser.ref_frame_sizes[j] = call.pre.ref_frame_sizes[j]

\* Each descriptor that is not show_existing_frame names, as its
\* last_frame_type, the frame_type of the one before it (before: the type
\* that precedes the first).
RECURSIVE Chained(_, _)
Chained(frames, before) ==
    \/ frames = <<>>
    \/ LET f == Head(frames)
       IN  IF f.show_existing_frame THEN Chained(Tail(frames), before)
           ELSE /\ f.last_frame_type = before
                /\ Chained(Tail(frames), f.frame_type)

\* C8: while every call since construction or reset has succeeded, the
\* last_frame_type of a descriptor that is not show_existing_frame is the
\* frame_type of the previous such descriptor, NonKeyFrame for the first;
\* show_existing_frame descriptors in between change nothing.
C8_LastFrameTypeChain ==
    (clean /\ Parsed) => Chained(Frames, call.prev)

\* A key frame had been parsed by an earlier call; this call returned a key
\* frame, a show_existing_frame frame, and an inter frame whose
\* last_frame_type is KeyFrame.
C8_Witness ==
    /\ clean /\ Parsed /\ Len(Frames) = 3
    /\ call.prev = "KeyFrame"
    /\ ~Frames[1].show_existing_frame
    /\ Frames[1].frame_type = "KeyFrame" /\ Frames[1].last_frame_type = "KeyFrame"
    /\ Frames[2].show_existing_frame
    /\ ~Frames[3].show_existing_frame
    /\ Frames[3].frame_type = "NonKeyFrame" /\ Frames[3].last_frame_type = "KeyFrame"

SizesFit(B) == Offset(B, FrameCount(B)) <= Len(B) - IndexSize(B)

C10_NotSuperframeIsOneFrame ==
    (Parsed /\ Len(call.packet) >= 1 /\ ~Recognised(call.packet)) =>
        LET f == parse_vp9_frame(call.pre, call.packet)
        IN  /\ call.res.st = f.st
            /\ Frames = f.frame

\* C11: every descriptor returned whose intra_only or error_resilient_mode
\* is TRUE has frame_context_idx 0.
C11_ContextIdxZeroWhenIntraOrResilient ==
    \A i \in DOMAIN Frames :
        (Frames[i].intra_only \/ Frames[i].error_resilient_mode)
            => Frames[i].frame_context_idx = 0

\* C12: every descriptor of a parsed key frame has frame_context_idx 0.
C12_KeyFrameContextIdxZero ==
    \A i \in DOMAIN Frames :
        (~Frames[i].show_existing_frame /\ Frames[i].frame_type = "KeyFrame")
            => Frames[i].frame_context_idx = 0

\* The loop filter deltas a new parser starts with.
DefaultRefDeltas == DefaultParser.loop_filter_ref_deltas

DefaultModeDeltas == DefaultParser.loop_filter_mode_deltas

\* The parser p, had its persisted loop filter deltas been the defaults.
WithDefaultDeltas(p) ==
    [p EXCEPT !.loop_filter_ref_deltas = DefaultRefDeltas,
              !.loop_filter_mode_deltas = DefaultModeDeltas]

\* The descriptor is of a frame (not show_existing_frame) that is a key
\* frame, error resilient or intra-only.
ResetsDeltas(f) ==
    /\ ~f.show_existing_frame
    /\ (f.frame_type = "KeyFrame" \/ f.error_resilient_mode \/ f.intra_only)

\* C13: the descriptor of a frame that is a key frame, error resilient or
\* intra-only has the loop filter deltas the same packet gives on a parser
\* whose persisted deltas are the defaults (the defaults, overwritten by the
\* entries the frame's header updates), whatever the deltas persisted before
\* were; they are the defaults when the header has loop_filter_delta_enabled
\* = 0, and (5, 0, -1, -1), (0, -3) for the frame KeyB, which updates ref
\* delta 0 to 5 and mode delta 1 to -3.
C13_DeltasResetBeforeLoopFilter ==
    (Parsed /\ call.res.st = "ok") =>
        LET fresh == parse_vp9_packet(WithDefaultDeltas(call.pre), call.packet)
        IN  \A i \in DOMAIN Frames :
                LET f == Frames[i]
                IN  ResetsDeltas(f) =>
                      /\ fresh.st = "ok"
                      /\ f.loop_filter_ref_deltas
                             = fresh.frames[i].loop_filter_ref_deltas
                      /\ f.loop_filter_mode_deltas
                             = fresh.frames[i].loop_filter_mode_deltas
                      /\ (~f.loop_filter_delta_enabled =>
                             /\ f.loop_filter_ref_deltas = DefaultRefDeltas
                             /\ f.loop_filter_mode_deltas = DefaultModeDeltas)
                      /\ (call.packet = KeyB =>
                             /\ f.loop_filter_ref_deltas
                                    = [DefaultRefDeltas EXCEPT ![0] = 5]
                             /\ f.loop_filter_mode_deltas
                                    = [DefaultModeDeltas EXCEPT ![1] = -3])

\* A frame that is not a key frame (intra-only or error resilient) and
\* updates no delta was parsed by a parser whose persisted deltas were not
\* the defaults: its descriptor has the defaults.
C13_Witness ==
    /\ Parsed /\ call.res.st = "ok" /\ Len(Frames) = 1
    /\ ResetsDeltas(Frames[1])
    /\ Frames[1].frame_type = "NonKeyFrame"
    /\ call.pre.loop_filter_ref_deltas # DefaultRefDeltas
    /\ call.pre.loop_filter_mode_deltas # DefaultModeDeltas
    /\ Frames[1].loop_filter_ref_deltas = DefaultRefDeltas
    /\ Frames[1].loop_filter_mode_deltas = DefaultModeDeltas

\* C14: every descriptor of a frame that carries a resolution (any frame
\* that is not show_existing_frame) has mi_cols = (width + 7) >> 3 and
\* mi_rows = (height + 7) >> 3.
C14_MiColsRowsFromSize ==
    \A i \in DOMAIN Frames :
        ~Frames[i].show_existing_frame =>
            /\ Frames[i].mi_cols = (Frames[i].width + 7) \div 8
            /\ Frames[i].mi_rows = (Frames[i].height + 7) \div 8

\* The packet holds one frame (its last byte is no superframe marker).
OneFrame(B) == Len(B) >= 1 /\ Marker(B) \div 32 # 6

\* The reader where a frame that is not show_existing_frame has read its
\* header up to tile_info: compressed_header_size is the next field.
HeaderStart(p, data) == RdBool(profile_header(frame_marker_header([p |-> p, pos |-> 0, st |-> "ok"], data), data), data, "show_existing_frame")

HeaderFields(s, data) == IF Ok(s) /\ ~s.p.show_existing_frame THEN frame_header(Put(s, "frame_to_show_map_idx", <<>>), data) ELSE Fail(s, "NoHeader")

HeaderRead(p, data) == HeaderFields(HeaderStart(p, data), data)

\* The header syntax, compressed_header_size included, ends on a byte
\* boundary.
AlignedEnd(h, data) == Ok(Adv(h, data, 16)) /\ (h.pos + 16) % 8 = 0

\* C15: when the header syntax of a frame ends on a byte boundary, the call
\* returns neither InvalidPadding nor BitReaderError, and a descriptor it
\* returns has that position / 8 as its uncompressed_header_size.
C15_NoTrailingBitsWhenAligned ==
    (Parsed /\ OneFrame(call.packet)) =>
        LET h == HeaderRead(call.pre, call.packet)
        IN  AlignedEnd(h, call.packet) =>
                /\ call.res.st \notin {"InvalidPadding", "BitReaderError"}
                /\ call.res.st = "ok" =>
                       Frames[1].uncompressed_header_size = (h.pos + 16) \div 8

\* compressed_header_size is more than the bytes left after the header.
Oversized(h, data) == Ok(Adv(h, data, 16)) /\ Peek(h, data, 16) > Len(data) - ((h.pos + 16 + 7) \div 8)

\* C19: a frame whose compressed_header_size is more than the bytes left
\* is returned all the same, with a tile_size of 0.
C19_OversizedCompressedHeaderClamped ==
    (Parsed /\ OneFrame(call.packet)) =>
        LET h == HeaderRead(call.pre, call.packet)
        IN  Oversized(h, call.packet) =>
                /\ call.res.st = "ok"
                /\ Len(Frames) = 1
                /\ Frames[1].tile_size = 0

\* The show_frame bit of a frame: the bit after frame_marker, the profile
\* bits (and the reserved bit of profile 3), show_existing_frame and
\* frame_type.
ShowFrameBit(B, profile) == BitAt(B, IF profile = "Profile3" THEN 7 ELSE 6) = 1

\* C20: the descriptor of a frame that is not show_existing_frame has the
\* show_frame bit of its header as show_frame.
C20_ShowFrameIsHeaderBit ==
    (Parsed /\ OneFrame(call.packet) /\ call.res.st = "ok") =>
        \A i \in DOMAIN Frames :
            ~Frames[i].show_existing_frame =>
                Frames[i].show_frame = ShowFrameBit(call.packet, Frames[i].profile)

\* Metadata::new has returned (or panicked).
MetadataDone == meta.res.st \notin {"none", "pending"}

\* The data is a sequence of whole (id, value) pairs.
WholePairs(data) == Len(data) % 2 = 0

PairIndices(data, id) == {k \in 1..(Len(data) \div 2) : data[2 * k - 1] = id}

\* The ids that occur in the data.
FeatureIds(data) == {id \in 0..255 : PairIndices(data, id) # {}}

\* The value of the last pair with the id.
FeatureValue(data, id) == data[2 * (CHOOSE k \in PairIndices(data, id) : \A j \in PairIndices(data, id) : j <= k)]

RequiredIds == {1, 2, 3, 4}

\* C16: Metadata::new returns the Metadata error whenever one of the ids
\* 1, 2, 3, 4 does not occur in the data.
C16_MissingIdRejected ==
    (MetadataDone /\ WholePairs(meta.data) /\ ~(RequiredIds \subseteq FeatureIds(meta.data)))
        => meta.res.st = "InvalidMetadata"

\* Chroma subsampling as the value of id 4 gives it.
SubsamplingOf(v) ==
    CASE v = 0 -> "Yuv420" [] v = 1 -> "Yuv420Colocated" [] v = 2 -> "Yuv422"
      [] v = 3 -> "Yuv444" [] OTHER -> "Unknown"

\* C17: on data with the ids 1, 2, 3, 4 the Metadata returned has the
\* profile of the value of id 1, the level of the value of id 2, the color
\* depth of the value of id 3 and the chroma subsampling of the value of
\* id 4.
C17_FieldsFromTheirIds ==
    (MetadataDone /\ WholePairs(meta.data) /\ RequiredIds \subseteq FeatureIds(meta.data)) =>
        /\ meta.res.st = "ok"
        /\ meta.res.metadata[1].profile = ProfileFrom(FeatureValue(meta.data, 1))
        /\ meta.res.metadata[1].level = LevelFrom(FeatureValue(meta.data, 2))
        /\ meta.res.metadata[1].color_depth = ColorDepthFrom(FeatureValue(meta.data, 3))
        /\ meta.res.metadata[1].chroma_subsampling = SubsamplingOf(FeatureValue(meta.data, 4))

\* C18: after reset() the parser is the parser Vp9Parser::new() gives, and
\* every packet given to it next has the result it has on a new parser.
C18_ResetRestoresDefaults ==
    call.op = "reset" =>
        /\ parser = DefaultParser
        /\ \A packet \in Packets :
               Result(parse_vp9_packet(parser, packet))
                   = Result(parse_vp9_packet(DefaultParser, packet))

\* reset() after a packet that changed the reference slots and the frame
\* type the parser keeps.
C18_Witness ==
    /\ call.op = "reset"
    /\ call.pre.ref_frame_sizes # DefaultParser.ref_frame_sizes
    /\ call.pre.frame_type # DefaultParser.frame_type
    /\ parser = DefaultParser

\* A frame with reference frames: not a key frame, not intra-only.
InterFrame(f) == ~f.show_existing_frame /\ f.frame_type = "NonKeyFrame" /\ ~f.intra_only

\* The position of the first found_ref bit of such a frame: after the start
\* bits, intra_only (read when show_frame is 0), reset_frame_context (read
\* unless error resilient), refresh_frame_flags and the three references.
FoundRefAt(B, f) == (IF f.profile = "Profile3" THEN 9 ELSE 8) + (IF ShowFrameBit(B, f.profile) THEN 0 ELSE 1) + (IF f.error_resilient_mode THEN 0 ELSE 2) + 8 + 12

\* The index of the first found_ref bit that is set, 3 if none is.
FirstFoundRef(B, at) == IF BitAt(B, at) = 1 THEN 0 ELSE IF BitAt(B, at + 1) = 1 THEN 1 ELSE IF BitAt(B, at + 2) = 1 THEN 2 ELSE 3

\* The size of the frame is the size of the slot of reference i as the
\* frames before left it, and the bits after found_ref bit i are the
\* render_size bit and allow_high_precision_mv: no size field is read.
SizeFromRef(B, f, slots, at, i) ==
    /\ <<f.width, f.height>> = slots[f.ref_frame_indices[i]]
    /\ BitAt(B, at + i + 1) = 0 =>
           /\ <<f.render_width, f.render_height>> = <<f.width, f.height>>
           /\ f.allow_high_precision_mv = (BitAt(B, at + i + 2) = 1)

\* The size of the frame is read after the three found_ref bits.
SizeExplicit(B, f, at) ==
    /\ f.width = ReadBits(B, at + 3, 16) + 1
    /\ f.height = ReadBits(B, at + 19, 16) + 1

SizeWithRefs(B, f, slots, at) == IF FirstFoundRef(B, at) < 3 THEN SizeFromRef(B, f, slots, at, FirstFoundRef(B, at)) ELSE SizeExplicit(B, f, at)

\* C21: a frame that is neither a key frame nor intra-only takes its size
\* from the slot of the first reference whose found_ref bit is set (as the
\* earlier frames wrote it, (0, 0) if none did) and reads no size then; it
\* reads its size only when none of the three bits is set.
C21_SizeFromFirstFoundRef ==
    (Parsed /\ OneFrame(call.packet) /\ call.res.st = "ok" /\ Len(Frames) = 1 /\ InterFrame(Frames[1]))
        => SizeWithRefs(call.packet, Frames[1], call.pre.ref_frame_sizes,
                        FoundRefAt(call.packet, Frames[1]))

\* A frame that takes its size from the slot its second reference names,
\* written by an earlier frame, while the slot numbered 1 was never written.
C21_Witness ==
    /\ Parsed /\ OneFrame(call.packet) /\ call.res.st = "ok" /\ Len(Frames) = 1
    /\ InterFrame(Frames[1])
    /\ FirstFoundRef(call.packet, FoundRefAt(call.packet, Frames[1])) = 1
    /\ call.pre.ref_frame_sizes[Frames[1].ref_frame_indices[1]] # <<0, 0>>
    /\ call.pre.ref_frame_sizes[1] = <<0, 0>>
    /\ Frames[1].width > 0

\* The width of the frame in 64x64 superblocks.
Sb64Cols(f) == (f.mi_cols + 7) \div 8

\* The smallest m with (MAX_TILE_WIDTH_B64 << m) >= sb64_cols.
MinLog2TileCols(sb64_cols) == CHOOSE m \in 0..16 : MAX_TILE_WIDTH_B64 * Pow2(m) >= sb64_cols /\ \A k \in 0..(m - 1) : MAX_TILE_WIDTH_B64 * Pow2(k) < sb64_cols

\* The largest m with (sb64_cols >> m) >= MIN_TILE_WIDTH_B64, 0 if none.
MaxLog2TileCols(sb64_cols) == IF sb64_cols < MIN_TILE_WIDTH_B64 THEN 0 ELSE CHOOSE m \in 0..16 : sb64_cols \div Pow2(m) >= MIN_TILE_WIDTH_B64 /\ sb64_cols \div Pow2(m + 1) < MIN_TILE_WIDTH_B64

\* C22: the tile_cols_log2 of every descriptor of a parsed frame lies
\* between min_log2_tile_cols and max_log2_tile_cols of the frame's width,
\* whatever the frames before it were.
C22_TileColsWithinBounds ==
    (Parsed /\ call.res.st = "ok") =>
        \A i \in DOMAIN Frames :
            ~Frames[i].show_existing_frame =>
                /\ MinLog2TileCols(Sb64Cols(Frames[i])) <= Frames[i].tile_cols_log2
                /\ Frames[i].tile_cols_log2 <= MaxLog2TileCols(Sb64Cols(Frames[i]))

\* The header syntax, compressed_header_size included, ends off a byte
\* boundary.
UnalignedEnd(h, data) == Ok(Adv(h, data, 16)) /\ (h.pos + 16) % 8 # 0

\* One of the bits from position at up to the next byte boundary is 1.
PaddingSet(B, at) == \E k \in at..(8 * ((at + 7) \div 8) - 1) : BitAt(B, k) = 1

\* C23: when the header syntax of a frame ends off a byte boundary, the
\* call returns InvalidPadding if a bit up to the boundary is 1, and a
\* descriptor it returns has the header bits / 8, rounded up, as its
\* uncompressed_header_size.
C23_PaddingToByteBoundary ==
    (Parsed /\ OneFrame(call.packet)) =>
        LET h == HeaderRead(call.pre, call.packet)
        IN  UnalignedEnd(h, call.packet) =>
                /\ PaddingSet(call.packet, h.pos + 16) => call.res.st = "InvalidPadding"
                /\ call.res.st = "ok" =>
                       Frames[1].uncompressed_header_size = (h.pos + 16 + 7) \div 8

\* The packet is one profile 0 key frame with its sync code and a colour
\* space other than sRGB: frame_width_minus_1 is at bit 36,
\* frame_height_minus_1 at bit 52, render_and_frame_size_different at bit 68.
KeyFrameProfile0(B) ==
    /\ OneFrame(B) /\ Len(B) >= 9
    /\ ReadBits(B, 0, 6) = 32
    /\ <<B[2], B[3], B[4]>> = <<73, 131, 66>>
    /\ ReadBits(B, 32, 3) # 7

\* The render size of the descriptor is the size read (or the frame size).
RenderSizeRead(B, f) ==
    IF BitAt(B, 68) = 1
    THEN /\ Len(B) >= 13
         /\ f.render_width = ReadBits(B, 69, 16) + 1
         /\ f.render_height = ReadBits(B, 85, 16) + 1
    ELSE <<f.render_width, f.render_height>> = <<f.width, f.height>>

\* C24: a key frame has width = frame_width_minus_1 + 1 and height =
\* frame_height_minus_1 + 1 (and the render size likewise), and the call
\* does not panic when one of the two fields is 65535.
C24_SizeIsFieldPlusOne ==
    (Parsed /\ KeyFrameProfile0(call.packet)) =>
        /\ call.res.st = "ok" =>
               /\ Frames[1].width = ReadBits(call.packet, 36, 16) + 1
               /\ Frames[1].height = ReadBits(call.packet, 52, 16) + 1
               /\ RenderSizeRead(call.packet, Frames[1])
        /\ (ReadBits(call.packet, 36, 16) = U16_MOD - 1 \/ ReadBits(call.packet, 52, 16) = U16_MOD - 1)
               => call.res.st # "panic"

\* The reader where a frame that is not show_existing_frame has read its
\* header up to segmentation_params: tile_info is next.
HeaderBeforeTiles(s, data) ==
    IF Ok(s) /\ ~s.p.show_existing_frame
    THEN LET r1 == frame_type_headers(Put(s, "frame_to_show_map_idx", <<>>), data)
             r2 == frame_context_headers(r1, data)
             r3 == quantization_params(r2, data)
         IN  InOrder(<<r1.st, r2.st, r3.st>>, segmentation_params(r3, data))
    ELSE Fail(s, "NoHeader")

\* calc_min_log2_tile_cols returns, and returns the smallest m with
\* (MAX_TILE_WIDTH_B64 << m) >= sb64_cols.
MinLog2Computed(p) == calc_min_log2_tile_cols(p).st = "ok" /\ calc_min_log2_tile_cols(p).v = MinLog2TileCols(Sb64Cols(p))

\* C25: for every frame whose header is read up to tile_info,
\* calc_min_log2_tile_cols ends without an error, a panic or an endless
\* loop and gives the smallest m with (64 << m) >= sb64_cols.
C25_MinLog2TileColsComputed ==
    (Parsed /\ OneFrame(call.packet)) =>
        LET t == HeaderBeforeTiles(HeaderStart(call.pre, call.packet), call.packet)
        IN  Ok(t) => MinLog2Computed(t.p)

\* The position after the size of an inter frame: the render_size bit.
RenderAt(B, at) == IF FirstFoundRef(B, at) < 3 THEN at + FirstFoundRef(B, at) + 1 ELSE at + 3 + 32

\* The position after render_size: allow_high_precision_mv.
PrecisionAt(B, at) == at + 1 + (IF BitAt(B, at) = 1 THEN 32 ELSE 0)

\* The position of loop_filter_level in an inter frame that is not error
\* resilient: after allow_high_precision_mv, the interpolation filter (one
\* bit, two more unless it is set), refresh_frame_context,
\* frame_parallel_decoding_mode and frame_context_idx.
FilterLevelAt(B, at) == at + 2 + (IF BitAt(B, at + 1) = 1 THEN 0 ELSE 2) + 4

LoopFilterAt(B, f) == FilterLevelAt(B, PrecisionAt(B, RenderAt(B, FoundRefAt(B, f))))

\* A field of n magnitude bits and a sign bit.
SignedAt(B, at, n) == IF BitAt(B, at + n) = 1 THEN -ReadBits(B, at, n) ELSE ReadBits(B, at, n)

\* The deltas old after the update bits (and values) of the entries i..n-1
\* from position at on, and the position after them.
RECURSIVE DeltasUpdated(_, _, _, _, _)
DeltasUpdated(B, at, old, i, n) ==
    IF i = n THEN [deltas |-> old, at |-> at]
    ELSE IF BitAt(B, at) = 1
    THEN DeltasUpdated(B, at + 8, [old EXCEPT ![i] = SignedAt(B, at + 1, 6)], i + 1, n)
    ELSE DeltasUpdated(B, at + 1, old, i + 1, n)

\* loop_filter_delta_enabled and loop_filter_delta_update are both set.
DeltasCoded(B, at) == BitAt(B, at + 9) = 1 /\ BitAt(B, at + 10) = 1

ExpectedRefDeltas(B, at, old) == IF DeltasCoded(B, at) THEN DeltasUpdated(B, at + 11, old, 0, 4).deltas ELSE old

ExpectedModeDeltas(B, at, old) == IF DeltasCoded(B, at) THEN DeltasUpdated(B, DeltasUpdated(B, at + 11, old, 0, 4).at, old, 0, 2).deltas ELSE old

\* The frame keeps the persisted deltas: no key frame, not error resilient,
\* not intra-only.
KeepsDeltas(f) == InterFrame(f) /\ ~f.error_resilient_mode

\* C26: the descriptor of a frame that is no key frame, not error resilient
\* and not intra-only has the loop filter deltas the parser held before the
\* frame, except the entries whose update bit the frame sets, which have
\* the value read; the parser holds the descriptor's deltas after the frame.
C26_DeltasPersistAcrossInterFrames ==
    (Parsed /\ OneFrame(call.packet) /\ call.res.st = "ok" /\ Len(Frames) = 1 /\ KeepsDeltas(Frames[1])) =>
        /\ Frames[1].loop_filter_ref_deltas
               = ExpectedRefDeltas(call.packet, LoopFilterAt(call.packet, Frames[1]),
                                   call.pre.loop_filter_ref_deltas)
        /\ Frames[1].loop_filter_mode_deltas
               = ExpectedModeDeltas(call.packet, LoopFilterAt(call.packet, Frames[1]),
                                    call.pre.loop_filter_mode_deltas)
        /\ parser.loop_filter_ref_deltas = Frames[1].loop_filter_ref_deltas
        /\ parser.loop_filter_mode_deltas = Frames[1].loop_filter_mode_deltas

\* Such a frame after a frame that left deltas other than the defaults: it
\* updates ref delta 2 and keeps the ref delta 0 it found.
C26_Witness ==
    /\ Parsed /\ OneFrame(call.packet) /\ call.res.st = "ok" /\ Len(Frames) = 1
    /\ KeepsDeltas(Frames[1])
    /\ DeltasCoded(call.packet, LoopFilterAt(call.packet, Frames[1]))
    /\ call.pre.loop_filter_ref_deltas[0] # DefaultRefDeltas[0]
    /\ Frames[1].loop_filter_ref_deltas[0] = call.pre.loop_filter_ref_deltas[0]
    /\ Frames[1].loop_filter_ref_deltas[2] # call.pre.loop_filter_ref_deltas[2]
    /\ Frames[1].loop_filter_mode_deltas[1] # DefaultModeDeltas[1]

\* The descriptor without the field a key frame takes from the frame
\* before it.
WithoutLastFrameType(f) == [f EXCEPT !.last_frame_type = "NonKeyFrame"]

\* C27: the descriptor of a key frame is the descriptor a new parser
\* returns for the same bytes, last_frame_type apart, whatever the parser
\* has parsed before.
C27_KeyFrameDescriptorFromPayload ==
    (Parsed /\ OneFrame(call.packet) /\ call.res.st = "ok" /\ Len(Frames) = 1
       /\ ~Frames[1].show_existing_frame /\ Frames[1].frame_type = "KeyFrame") =>
        LET fresh == parse_vp9_packet(DefaultParser, call.packet)
        IN  /\ fresh.st = "ok"
            /\ WithoutLastFrameType(Frames[1]) = WithoutLastFrameType(fresh.frames[1])

\* The number of bytes the descriptors own together.
RECURSIVE PayloadBytes(_)
PayloadBytes(frames) == IF frames = <<>> THEN 0 ELSE Len(Head(frames).data) + PayloadBytes(Tail(frames))

\* C28: on every packet recognised as a superframe the call returns (it
\* does not panic), and the descriptors it returns own no more bytes than
\* the packet has before its index.
C28_SuperframeReportsCleanly ==
    (Parsed /\ Recognised(call.packet)) =>
        /\ call.res.st # "panic"
        /\ call.res.st = "ok" =>
               PayloadBytes(Frames) <= Len(call.packet) - IndexSize(call.packet)

\* C29: Metadata::new returns a Metadata or the InvalidMetadata error for
\* every data, data of odd length included: it does not read past the end.
C29_MetadataNeverReadsPastEnd ==
    MetadataDone => meta.res.st \in {"ok", "InvalidMetadata"}

====
